---- MODULE Spec2Model ----
(***************************************************************************)
(* Heap-based virtual machine of shaka-scheme                               *)
(* (src/src/shaka_scheme/system/vm/HeapVirtualMachine.cpp).                 *)
(*                                                                         *)
(* The machine has five registers (accumulator, expression, environment,   *)
(* value rib, call frame) and one operation,                               *)
(* evaluate_assembly_instruction, a sequence of independent if-blocks that *)
(* each compare the opcode symbol read at entry.  Environments and call    *)
(* frames are heap objects shared through pointers; they are modelled as   *)
(* two heaps indexed by positive integers, 0 being the null pointer.       *)
(*                                                                         *)
(* The host keeps the program datums it hands to the machine (prog is the  *)
(* latest one), so every instruction the expression register points into   *)
(* stays allocated during a step.                                          *)
(*                                                                         *)
(* The module also holds Variable::evaluate of the tree-walking evaluator  *)
(* (src/src/core/eval/Variable_impl.h), called on the machine's current    *)
(* environment, and the datum parser                                       *)
(* (src/src/shaka_scheme/system/parser/parser_definitions.cpp), whose      *)
(* state machine SpecParser is a host calling parse_datum and append_input *)
(* on one ParserInput.  The character-level Tokenizer                      *)
(* (src/src/shaka_scheme/system/lexer/Tokenizer.hpp) is modelled with its  *)
(* deque of tokens; the state machine SpecLexer is a host calling get,     *)
(* peek and unget on one Tokenizer or on one ParserInput.                  *)
(***************************************************************************)
EXTENDS Integers, Sequences, FiniteSets, TLC

VARIABLES
  acc,      \* accumulator register (a datum, or the null pointer)
  exp,      \* expression register (the next instruction datum)
  env,      \* environment register (index into envs)
  rib,      \* value rib register (sequence of datums)
  frame,    \* call frame register (index into frames, 0 = nullptr)
  envs,     \* heap of Environment objects
  frames,   \* heap of CallFrame objects
  status,   \* "ok", or how the last step ended abnormally
  prog,     \* the program datum the host handed over and still holds
  loads,    \* number of set_expression calls made by the host
  last,     \* history: opcode and machine state at entry of the last step
  snap,     \* history: per frame, the registers when the frame step ran
  argLog,   \* history: accumulators pushed since the last frame step
  reentry,  \* history: the last application of a continuation closure
  result,   \* node and outcome of the last Variable::evaluate call
  twin,     \* a second machine the host constructs from the registers of
            \* the first, and the registers it was constructed from
  count,    \* history: the frame steps and the return steps completed
  pin,      \* the ParserInput: the lexer and the deque of looked-ahead tokens
  phist,    \* history: the calls made on the ParserInput, with their results
  tk,       \* the Tokenizer: the characters not read and the deque of tokens
  thist     \* history: the get, peek and unget calls, with what they returned

vmvars == <<acc, exp, env, rib, frame, envs, frames, status,
            prog, loads, last, snap, argLog, reentry, result, twin, count>>

pvars == <<pin, phist>>

tvars == <<tk, thist>>

vars == <<vmvars, pvars, tvars>>

-----------------------------------------------------------------------------
(* Bounds of the model *)

MaxFrames == 3
MaxEnvs == 4
MaxRib == 3
MaxLoads == 1
\* steps followed after a continuation closure is applied
MaxAge == 3
\* length of the enumerated lexer inputs
MaxLexLen == 4
\* calls made on one ParserInput
MaxCalls == 3
\* length of the character inputs drawn for the Tokenizer
MaxChars == 4
\* get, peek and unget calls made on one lexer object
MaxOps == 4

-----------------------------------------------------------------------------
(* Datums: tagged values. The tag is the first component. *)

NullPtr == <<"nullptr">>
Null == <<"null">>
Sym(s) == <<"sym", s>>
Num(n) == <<"num", n>>
Bool(b) == <<"bool", b>>
Str(s) == <<"str", s>>
Cons(a, d) == <<"pair", a, d>>
\* Closure(env, body, vars, variadic-tail, captured-frame)
Closure(e, body, vs, f) == <<"closure", e, body, vs, f>>
\* A CallFrame object copied into a datum
FrameDatum(fr) == <<"frame", fr.ret, fr.env, fr.rib, fr.next>>

Tag(d) == d[1]
IsPair(d) == Tag(d) = "pair"
IsSymbol(d) == Tag(d) = "sym"
IsClosure(d) == Tag(d) = "closure"
car(p) == p[2]
cdr(p) == p[3]
is_null_list(d) == Tag(d) = "null"

RECURSIVE list(_)
list(s) == IF s = <<>> THEN Null ELSE Cons(Head(s), list(Tail(s)))

\* the symbols of a proper list of symbols, in list order
RECURSIVE SymbolsOf(_)
SymbolsOf(l) ==
  IF is_null_list(l) THEN <<>> ELSE <<car(l)[2]>> \o SymbolsOf(cdr(l))

\* The datum parse_simple builds for the boolean-false token (#f / #false)
FalseDatum == Bool(FALSE)
TrueDatum == Bool(TRUE)

-----------------------------------------------------------------------------
(* Environment: name -> datum frame with a parent link *)

NoBindings == [n \in {} |-> Null]

RECURSIVE is_defined(_, _, _)
is_defined(h, e, key) ==
  IF e = 0 THEN FALSE
  ELSE IF key \in DOMAIN h[e].vals THEN TRUE
  ELSE is_defined(h, h[e].parent, key)

\* get_value walks up the parent chain; Unbound stands for its failure
Unbound == <<"unbound">>

RECURSIVE get_value(_, _, _)
get_value(h, e, key) ==
  IF e = 0 THEN Unbound
  ELSE IF key \in DOMAIN h[e].vals THEN h[e].vals[key]
  ELSE get_value(h, h[e].parent, key)

\* set_value walks up the parent chain and mutates the binding it finds;
\* found = FALSE stands for its failure on an unbound key
RECURSIVE set_value(_, _, _, _)
set_value(h, e, key, v) ==
  IF e = 0 THEN [found |-> FALSE, heap |-> h]
  ELSE IF key \in DOMAIN h[e].vals
  THEN [found |-> TRUE, heap |-> [h EXCEPT ![e].vals[key] = v]]
  ELSE set_value(h, h[e].parent, key, v)

EmptyEnvironment == [vals |-> NoBindings, parent |-> 0]

-----------------------------------------------------------------------------
(* Variable::evaluate (src/src/core/eval/Variable_impl.h): the outcome is  *)
(* either the value returned or the std::runtime_error thrown, whose       *)
(* message is kept as the sequence of the strings it is concatenated from  *)
(* (the quotation marks around the name are left out).                     *)

Returns(node, v) ==
  [node |-> node, throws |-> FALSE, what |-> <<>>, value |-> v]
Throws(node, what) ==
  [node |-> node, throws |-> TRUE, what |-> what, value |-> <<"nullptr">>]

\* variant of Variable_evaluate: the key is looked up without the
\* is_defined check
Variable_evaluate_unchecked(h, e, node) ==
  IF node[1] = "sym"
  THEN Returns(node, get_value(h, e, node[2]))
  ELSE Throws(node, <<"eval.Variable: argument is not a Symbol">>)

Variable_evaluate(h, e, node) ==
  IF node[1] = "sym"
  THEN LET key == node[2]
       IN IF ~is_defined(h, e, key)
          THEN Throws(node, <<"eval.Variable: variable ", key,
                              " is undefined">>)
          ELSE Returns(node, get_value(h, e, key))
  ELSE Throws(node, <<"eval.Variable: argument is not a Symbol">>)

-----------------------------------------------------------------------------
(* Call frames *)

CallFrame(ret, e, r, next_frame) ==
  [ret |-> ret, env |-> e, rib |-> r, next |-> next_frame]

get_next_expression(fr) == fr.ret
get_environment_pointer(fr) == fr.env
get_value_rib(fr) == fr.rib
get_next_frame(fr) == fr.next

-----------------------------------------------------------------------------
(* The machine state a step works on *)

Machine ==
  [acc |-> acc, exp |-> exp, env |-> env, rib |-> rib, frame |-> frame,
   envs |-> envs, frames |-> frames, status |-> status]

\* a null pointer is dereferenced: the process is terminated by the fault
Crash(m) == [m EXCEPT !.status = "crash"]

-----------------------------------------------------------------------------
(* The if-blocks of evaluate_assembly_instruction.  exp_pair is the pair   *)
(* of the expression read at entry of the step.                            *)

\* variant of instr_refer: looks the variable up in the global frame only
instr_refer_global(m, exp_pair) ==
  LET exp_cdr == cdr(exp_pair)
      var == car(exp_cdr)[2]
      next_expression == car(cdr(exp_cdr))
  IN IF get_value(m.envs, 1, var) = Unbound
     THEN [m EXCEPT !.status = "UnboundVariable"]
     ELSE [m EXCEPT !.acc = get_value(m.envs, 1, var),
                    !.exp = next_expression]

\* (refer var x)
instr_refer(m, exp_pair) ==
  LET exp_cdr == cdr(exp_pair)
      var == car(exp_cdr)[2]
      next_expression == car(cdr(exp_cdr))
  IN IF m.env = 0 THEN Crash(m)
     ELSE IF get_value(m.envs, m.env, var) = Unbound
     THEN [m EXCEPT !.status = "UnboundVariable"]
     ELSE [m EXCEPT !.acc = get_value(m.envs, m.env, var),
                    !.exp = next_expression]

\* variant of instr_constant: the step depends on what is no register, the
\* opcode of the step before: a constant after a constant keeps the
\* accumulator
instr_constant_stale(m, exp_pair) ==
  LET exp_cdr == cdr(exp_pair)
      obj == car(exp_cdr)
      next_expression == car(cdr(exp_cdr))
  IN [m EXCEPT !.acc = IF last.op = "constant" THEN @ ELSE obj,
               !.exp = next_expression]

\* variant of instr_constant: the accumulator receives the operand list
instr_constant_cdr(m, exp_pair) ==
  LET exp_cdr == cdr(exp_pair)
      next_expression == car(cdr(exp_cdr))
  IN [m EXCEPT !.acc = exp_cdr, !.exp = next_expression]

\* (constant obj x)
instr_constant(m, exp_pair) ==
  LET exp_cdr == cdr(exp_pair)
      obj == car(exp_cdr)
      next_expression == car(cdr(exp_cdr))
  IN [m EXCEPT !.acc = obj, !.exp = next_expression]

\* variant of instr_close: the closure captures the global environment
instr_close_global(m, exp_pair) ==
  LET exp_cdr == cdr(exp_pair)
      vs == SymbolsOf(car(exp_cdr))
      body == car(cdr(exp_cdr))
      next_expression == car(cdr(cdr(exp_cdr)))
  IN [m EXCEPT !.acc = Closure(1, body, vs, 0),
               !.exp = next_expression]

\* (close vars body x)
instr_close(m, exp_pair) ==
  LET exp_cdr == cdr(exp_pair)
      vs == SymbolsOf(car(exp_cdr))
      body == car(cdr(exp_cdr))
      next_expression == car(cdr(cdr(exp_cdr)))
  IN [m EXCEPT !.acc = Closure(m.env, body, vs, 0),
               !.exp = next_expression]

\* variant of instr_test: the empty list counts as false too
instr_test_null_false(m, exp_pair) ==
  LET exp_cdr == cdr(exp_pair)
      then_exp == car(exp_cdr)
      else_exp == car(cdr(exp_cdr))
  IN IF m.acc = NullPtr THEN Crash(m)
     ELSE IF (IsSymbol(m.acc) /\ m.acc = Sym("#f")) \/ is_null_list(m.acc)
     THEN [m EXCEPT !.exp = else_exp]
     ELSE [m EXCEPT !.exp = then_exp]

\* (test then else)
instr_test(m, exp_pair) ==
  LET exp_cdr == cdr(exp_pair)
      then_exp == car(exp_cdr)
      else_exp == car(cdr(exp_cdr))
  IN IF m.acc = NullPtr THEN Crash(m)
     ELSE IF IsSymbol(m.acc) /\ m.acc = Sym("#f")
     THEN [m EXCEPT !.exp = else_exp]
     ELSE [m EXCEPT !.exp = then_exp]

\* variant of instr_assign: the binding is written into the innermost
\* environment frame, whether or not it exists there
instr_assign_define(m, exp_pair) ==
  LET exp_cdr == cdr(exp_pair)
      var == car(exp_cdr)[2]
      expression == car(cdr(exp_cdr))
  IN IF m.env = 0 THEN Crash(m)
     ELSE [m EXCEPT !.envs[m.env].vals = (var :> m.acc) @@ @,
                    !.exp = expression]

\* (assign var x)
instr_assign(m, exp_pair) ==
  LET exp_cdr == cdr(exp_pair)
      var == car(exp_cdr)[2]
      expression == car(cdr(exp_cdr))
      written == set_value(m.envs, m.env, var, m.acc)
  IN IF m.env = 0 THEN Crash(m)
     ELSE IF ~written.found
     THEN [m EXCEPT !.status = "UnboundVariable"]
     ELSE [m EXCEPT !.envs = written.heap, !.exp = expression]

\* (conti x)
instr_conti(m, exp_pair) ==
  IF m.frame = 0 THEN Crash(m)
  ELSE
    LET call_frame == FrameDatum(m.frames[m.frame])
        func_body == list(<<Sym("nuate"), call_frame, Sym("kont_v000")>>)
        empty_env == Len(m.envs) + 1
        continuation ==
          Closure(empty_env, func_body, <<"kont_v000">>, m.frame)
    IN [m EXCEPT !.envs = Append(m.envs, EmptyEnvironment),
                 !.acc = continuation,
                 !.exp = car(cdr(exp_pair))]

\* variant of instr_frame: the rib is not reset
instr_frame_keep_rib(m, exp_pair) ==
  LET expr_cdr == cdr(exp_pair)
      x == car(expr_cdr)
      ret == car(cdr(expr_cdr))
      new_frame == CallFrame(ret, m.env, m.rib, m.frame)
  IN [m EXCEPT !.frames = Append(m.frames, new_frame),
               !.frame = Len(m.frames) + 1,
               !.exp = x]

\* variant of instr_frame: the rib is reset before the frame is built
instr_frame_reset_first(m, exp_pair) ==
  LET expr_cdr == cdr(exp_pair)
      x == car(expr_cdr)
      ret == car(cdr(expr_cdr))
      new_frame == CallFrame(ret, m.env, <<>>, m.frame)
  IN [m EXCEPT !.frames = Append(m.frames, new_frame),
               !.frame = Len(m.frames) + 1,
               !.exp = x,
               !.rib = <<>>]

\* (frame x ret)
instr_frame(m, exp_pair) ==
  LET expr_cdr == cdr(exp_pair)
      x == car(expr_cdr)
      ret == car(cdr(expr_cdr))
      new_frame == CallFrame(ret, m.env, m.rib, m.frame)
  IN [m EXCEPT !.frames = Append(m.frames, new_frame),
               !.frame = Len(m.frames) + 1,
               !.exp = x,
               !.rib = <<>>]

\* variant of instr_argument: the rib saved in the top call frame shares
\* its storage with the rib register
instr_argument_shared(m, exp_pair) ==
  LET exp_cdr == cdr(exp_pair)
      x == car(exp_cdr)
      pushed == [m EXCEPT !.rib = Append(m.rib, m.acc), !.exp = x]
  IN IF m.frame = 0 THEN pushed
     ELSE [pushed EXCEPT !.frames[m.frame].rib = Append(@, m.acc)]

\* variant of instr_argument: the accumulator is pushed at the front
instr_argument_front(m, exp_pair) ==
  LET exp_cdr == cdr(exp_pair)
      x == car(exp_cdr)
  IN [m EXCEPT !.rib = <<m.acc>> \o m.rib, !.exp = x]

\* (argument x)
instr_argument(m, exp_pair) ==
  LET exp_cdr == cdr(exp_pair)
      x == car(exp_cdr)
  IN [m EXCEPT !.rib = Append(m.rib, m.acc), !.exp = x]

\* variant of instr_return: the frame register is not advanced
instr_return_no_pop(m, exp_pair) ==
  IF m.frame = 0 THEN Crash(m)
  ELSE
    LET fr == m.frames[m.frame]
    IN [m EXCEPT !.exp = get_next_expression(fr),
                 !.rib = get_value_rib(fr),
                 !.env = get_environment_pointer(fr)]

\* (return)
instr_return(m, exp_pair) ==
  IF m.frame = 0 THEN Crash(m)
  ELSE
    LET fr == m.frames[m.frame]
    IN [m EXCEPT !.exp = get_next_expression(fr),
                 !.rib = get_value_rib(fr),
                 !.env = get_environment_pointer(fr),
                 !.frame = get_next_frame(fr)]

\* the if-blocks in the order of the source, after the one for halt
BlockOrder ==
  <<"refer", "constant", "close", "test", "assign", "conti", "frame",
    "argument", "return">>

\* the body of the if-block for opcode op
BlockBody(op, m, exp_pair) ==
  CASE op = "refer" -> instr_refer(m, exp_pair)
    [] op = "constant" -> instr_constant(m, exp_pair)
    [] op = "close" -> instr_close(m, exp_pair)
    [] op = "test" -> instr_test(m, exp_pair)
    [] op = "assign" -> instr_assign(m, exp_pair)
    [] op = "conti" -> instr_conti(m, exp_pair)
    [] op = "frame" -> instr_frame(m, exp_pair)
    [] op = "argument" -> instr_argument(m, exp_pair)
    [] op = "return" -> instr_return(m, exp_pair)

\* variant of Block: each if-block reads the head of the expression the
\* register holds when the block is reached
Block_reread(op, m, instruction, exp_pair) ==
  IF m.status = "ok" /\ IsPair(m.exp) /\ car(m.exp) = Sym(op)
  THEN BlockBody(op, m, m.exp)
  ELSE m

\* one if-block: its body runs when the opcode read at entry is op, unless
\* an earlier block has ended the step abnormally
Block(op, m, instruction, exp_pair) ==
  IF m.status = "ok" /\ instruction = op
  THEN BlockBody(op, m, exp_pair)
  ELSE m

\* the if-blocks from the k-th on, one after the other
RECURSIVE Blocks(_, _, _, _)
Blocks(k, m, instruction, exp_pair) ==
  IF k > Len(BlockOrder) THEN m
  ELSE Blocks(k + 1, Block(BlockOrder[k], m, instruction, exp_pair),
              instruction, exp_pair)

\* variant of evaluate_assembly_instruction: halt clears the accumulator
evaluate_assembly_instruction_clear(m) ==
  LET exp_pair == m.exp
      instruction == car(exp_pair)[2]
  IN IF instruction = "halt" THEN [m EXCEPT !.acc = NullPtr]
     ELSE Blocks(1, m, instruction, exp_pair)

evaluate_assembly_instruction(m) ==
  LET exp_pair == m.exp
      instruction == car(exp_pair)[2]
  IN IF instruction = "halt" THEN m
     ELSE Blocks(1, m, instruction, exp_pair)

-----------------------------------------------------------------------------
(* Instruction datums, as the compiler emits them *)

I_halt == list(<<Sym("halt")>>)
I_refer(var, x) == list(<<Sym("refer"), Sym(var), x>>)
I_constant(obj, x) == list(<<Sym("constant"), obj, x>>)
I_close(vs, body, x) == list(<<Sym("close"), vs, body, x>>)
I_test(then_exp, else_exp) == list(<<Sym("test"), then_exp, else_exp>>)
I_assign(var, x) == list(<<Sym("assign"), Sym(var), x>>)
I_conti(x) == list(<<Sym("conti"), x>>)
I_nuate(s, var) == list(<<Sym("nuate"), s, Sym(var)>>)
I_frame(first, second) == list(<<Sym("frame"), first, second>>)
I_argument(x) == list(<<Sym("argument"), x>>)
I_apply == list(<<Sym("apply")>>)
I_return == list(<<Sym("return")>>)

Opcodes ==
  {"halt", "refer", "constant", "close", "test", "assign", "conti",
   "nuate", "frame", "argument", "apply", "return"}

\* head symbols that are no opcode
UnknownHeads == {"define", "jump"}

\* (constant 1 (constant 2 (halt)))
ProgConstants == I_constant(Num(1), I_constant(Num(2), I_halt))
ProgConstants3 ==
  I_constant(Str("a"), I_constant(Num(1), I_constant(Num(3), I_halt)))

\* (if v 1 2): (constant v (test (constant 1 (halt)) (constant 2 (halt))))
ProgIf(v) ==
  I_constant(v, I_test(I_constant(Num(1), I_halt),
                       I_constant(Num(2), I_halt)))
TestValues ==
  {FalseDatum, TrueDatum, Null, Num(0), Str(""), Sym("#f"), Sym("a")}

\* a test on whatever the accumulator holds when the program is loaded
ProgTest == I_test(I_constant(Num(1), I_halt), I_constant(Num(2), I_halt))

ProgRefer(var) == I_refer(var, I_halt)

\* (set! x 9) then x
ProgAssign(var) == I_constant(Num(9), I_assign(var, I_refer(var, I_halt)))

\* a frame, two arguments and the return to the frame's return expression
ProgArgs ==
  I_frame(I_constant(Num(1), I_argument(
            I_constant(Num(2), I_argument(I_return)))),
          I_argument(I_halt))

\* two nested frames
ProgNested ==
  I_frame(I_constant(Num(4), I_argument(
            I_frame(I_constant(Num(5), I_argument(I_return)),
                    I_argument(I_return)))),
          I_halt)

\* ((lambda (x) x) 5)
ProgIdentity ==
  I_frame(I_constant(Num(5), I_argument(
            I_close(list(<<Sym("x")>>), I_refer("x", I_return), I_apply))),
          I_halt)

\* (close (x y) body (halt))
ProgClose ==
  I_close(list(<<Sym("x"), Sym("y")>>), I_refer("y", I_return), I_halt)

\* (call/cc (lambda (k) ...)) up to the capture, inside a frame
ProgConti == I_frame(I_conti(I_argument(I_return)), I_halt)

\* a capture with an empty control stack
ProgContiTop == I_conti(I_halt)

\* the body of a continuation closure
ProgNuate ==
  I_nuate(FrameDatum(CallFrame(I_halt, 1, <<Num(1)>>, 0)), "x")

ProgReturn == I_return

ProgApply == I_constant(Num(3), I_apply)

ProgUnknown(h) == list(<<Sym(h), I_halt>>)

\* (begin (set! x (call/cc (lambda (k) k))) (x 7)): the continuation is
\* captured inside a frame, stored in x, the frame is popped by return and
\* the continuation is then applied to 7
ProgReenter ==
  I_frame(I_conti(I_assign("x", I_return)),
          I_constant(Num(7), I_argument(I_refer("x", I_apply))))

Programs ==
  {ProgConstants, ProgConstants3, ProgTest, ProgArgs, ProgNested,
   ProgIdentity, ProgClose, ProgConti, ProgContiTop, ProgNuate,
   ProgReturn, ProgApply, ProgReenter, I_halt}
  \cup {ProgIf(v) : v \in TestValues}
  \cup {ProgRefer(var) : var \in {"x", "y", "z"}}
  \cup {ProgAssign(var) : var \in {"x", "y", "z"}}
  \cup {ProgUnknown(h) : h \in UnknownHeads}

-----------------------------------------------------------------------------
(* Core list operation used by the parser *)

TypeError == <<"TypeError">>

\* append copies the pairs of its first argument in front of the second;
\* it walks the first argument with car and cdr, which fail on a non-pair
RECURSIVE append(_, _)
append(a, b) ==
  IF is_null_list(a) THEN b
  ELSE IF ~IsPair(a) THEN TypeError
  ELSE LET rest == append(cdr(a), b)
       IN IF rest = TypeError THEN TypeError ELSE Cons(car(a), rest)

-----------------------------------------------------------------------------
(* Lexer results and the ParserInput                                       *)
(* (src/src/shaka_scheme/system/parser/parser_definitions.cpp).            *)
(*                                                                         *)
(* The lexer holds the results its input still has to deliver.  A token is *)
(* consumed when it is delivered; a malformed token stays at the front     *)
(* (the lexer backtracks and cannot get past it); when the input is used   *)
(* up the lexer delivers an incomplete result until input is appended.     *)

Token(tt, str) == [kind |-> "token", token_type |-> tt, str |-> str]
LexError == [kind |-> "error", token_type |-> "invalid", str |-> "#q"]
LexIncomplete == [kind |-> "incomplete", token_type |-> "", str |-> ""]
is_token(r) == r.kind = "token"

Lexer(input) == [input |-> input, failed |-> FALSE]

scheme_lexer(lex) ==
  IF lex.input = <<>> THEN [ret |-> LexIncomplete, lex |-> lex]
  ELSE IF ~is_token(Head(lex.input))
  THEN [ret |-> Head(lex.input), lex |-> [lex EXCEPT !.failed = TRUE]]
  ELSE [ret |-> Head(lex.input), lex |-> [lex EXCEPT !.input = Tail(@)]]

ParserInput(input) == [lex |-> Lexer(input), tokens |-> <<>>]

append_input(in, more) == [in EXCEPT !.lex.input = @ \o more]

ParserInput_get(in) ==
  IF in.tokens = <<>>
  THEN LET l == scheme_lexer(in.lex)
       IN [ret |-> l.ret, in |-> [in EXCEPT !.lex = l.lex]]
  ELSE [ret |-> Head(in.tokens), in |-> [in EXCEPT !.tokens = Tail(@)]]

ParserInput_peek(in) ==
  IF in.tokens = <<>>
  THEN LET l == scheme_lexer(in.lex)
       IN IF ~is_token(l.ret)
          THEN [ret |-> l.ret, in |-> [in EXCEPT !.lex = l.lex]]
          ELSE [ret |-> l.ret,
                in |-> [in EXCEPT !.lex = l.lex, !.tokens = <<l.ret>>]]
  ELSE [ret |-> Head(in.tokens), in |-> in]

ParserInput_unget(in, token) == [in EXCEPT !.tokens = <<token>> \o @]

-----------------------------------------------------------------------------
(* ParserResult *)

\* lexer::Error("", LexInfo(), "ParserResult-good")
GoodLexResult ==
  [kind |-> "error", token_type |-> "ParserResult-good", str |-> ""]

ParserResult(type, it, lex_result) ==
  [type |-> type, it |-> it, lex_result |-> lex_result]

is_valid(r) == r.type = "valid"
is_lexer_error(r) == r.type = "lexer-error"
is_parser_error(r) == r.type = "parser-error"
is_incomplete(r) == r.type = "incomplete"
is_complete(r) == r.type = "complete"

Valid(lex_result) == ParserResult("valid", NullPtr, lex_result)
Complete(node) == ParserResult("complete", node, GoodLexResult)
LexerError(lex_result) == ParserResult("lexer-error", NullPtr, lex_result)
ParserError(lex_result, str) ==
  ParserResult("parser-error", Str(str), lex_result)
Incomplete(lex_result) == ParserResult("incomplete", NullPtr, lex_result)

\* append_input returns nothing
Void == ParserResult("void", NullPtr, GoodLexResult)

\* no ParserResult is returned: a TypeError leaves the parser functions
ThrownTypeError == ParserResult("TypeError", NullPtr, GoodLexResult)
is_thrown(r) == r.type = "TypeError"

-----------------------------------------------------------------------------
(* The parser functions.  Each takes the ParserInput and gives back the    *)
(* ParserResult with the ParserInput it leaves behind.                     *)

parse_simple(in) ==
  LET pk == ParserInput_peek(in)
      next == pk.ret
      got == ParserInput_get(pk.in).in
  IN IF next.token_type = "string"
     THEN [res |-> Complete(Str(next.str)), in |-> got]
     ELSE IF next.token_type = "identifier"
     THEN [res |-> Complete(Sym(next.str)), in |-> got]
     ELSE IF next.token_type = "boolean-true"
     THEN [res |-> Complete(Bool(TRUE)), in |-> got]
     ELSE IF next.token_type = "boolean-false"
     THEN [res |-> Complete(Bool(FALSE)), in |-> got]
     ELSE LET pk2 == ParserInput_peek(pk.in)
          IN [res |-> ParserError(pk2.ret, "could not match to simple datum"),
              in |-> pk2.in]

\* while (in.peek().token_type == "comment") in.get();
RECURSIVE skip_comments(_)
skip_comments(in) ==
  LET pk == ParserInput_peek(in)
  IN IF pk.ret.token_type = "comment"
     THEN skip_comments(ParserInput_get(pk.in).in)
     ELSE pk.in

RECURSIVE parse_datum(_), parse_datum_quote(_), parse_list(_),
          parse_list_loop(_, _), list_element(_, _), list_tail(_, _)

\* parse_datum up to the quote branch: comments and one datum comment
parse_datum(in) ==
  LET pk == ParserInput_peek(skip_comments(in))
  IN IF pk.ret.token_type = "datum-comment"
     THEN LET parsed_datum == parse_datum(ParserInput_get(pk.in).in)
          IN IF ~is_complete(parsed_datum.res) THEN parsed_datum
             ELSE parse_datum_quote(parsed_datum.in)
     ELSE parse_datum_quote(pk.in)

\* parse_datum from the quote branch on
parse_datum_quote(in) ==
  LET pk == ParserInput_peek(in)
  IN IF pk.ret.token_type = "quote"
     THEN LET saved == ParserInput_get(pk.in)
              saved_token == saved.ret
              parsed_datum == parse_datum(saved.in)
          IN IF is_thrown(parsed_datum.res) THEN parsed_datum
             ELSE IF ~is_complete(parsed_datum.res)
             THEN [res |-> parsed_datum.res,
                   in |-> ParserInput_unget(parsed_datum.in, saved_token)]
             ELSE [res |-> Complete(list(<<Sym("quote"),
                                           parsed_datum.res.it>>)),
                   in |-> parsed_datum.in]
     ELSE LET simple_datum == parse_simple(pk.in)
          IN IF is_complete(simple_datum.res) THEN simple_datum
             ELSE LET pk2 == ParserInput_peek(simple_datum.in)
                      next == pk2.ret
                  IN IF next.token_type = "paren-left"
                     THEN parse_list(pk2.in)
                     ELSE [res |-> ParserError(next,
                                     "could not parse non-simple datum"),
                           in |-> pk2.in]

\* variant of parse_list: the list the datums are appended to does not
\* start empty
parse_list_seeded(in) ==
  LET pk == ParserInput_peek(in)
  IN IF pk.ret.token_type = "paren-left"
     THEN parse_list_loop(ParserInput_get(pk.in).in, list(<<Null>>))
     ELSE parse_list_loop(pk.in, list(<<Null>>))

parse_list(in) ==
  LET pk == ParserInput_peek(in)
  IN IF pk.ret.token_type = "paren-left"
     THEN parse_list_loop(ParserInput_get(pk.in).in, list(<<>>))
     ELSE parse_list_loop(pk.in, list(<<>>))

\* the while loop of parse_list and what follows it
parse_list_loop(in, data_list) ==
  LET pk == ParserInput_peek(in)
  IN IF pk.ret.token_type # "paren-right"
     THEN list_element(data_list, parse_datum(pk.in))
     ELSE
       LET pk3 == ParserInput_peek(pk.in)
       IN IF pk3.ret.token_type = "paren-right"
          THEN [res |-> Complete(data_list), in |-> ParserInput_get(pk3.in).in]
          ELSE LET pk4 == ParserInput_peek(pk3.in)
               IN [res |-> ParserError(pk4.ret,
                             "could not match to closing parens for list"),
                   in |-> pk4.in]

\* the body of the while loop, parse_datum having returned datum_result
list_element(data_list, datum_result) ==
  IF is_thrown(datum_result.res) THEN datum_result
  ELSE IF is_complete(datum_result.res)
  THEN LET appended == append(data_list, list(<<datum_result.res.it>>))
       IN IF appended = TypeError
          THEN [res |-> ThrownTypeError, in |-> datum_result.in]
          ELSE parse_list_loop(datum_result.in, appended)
  ELSE
    LET pk2 == ParserInput_peek(datum_result.in)
    IN IF pk2.ret.token_type = "dot"
       THEN list_tail(data_list, parse_datum(ParserInput_get(pk2.in).in))
       ELSE [res |-> datum_result.res, in |-> pk2.in]

\* the dot branch of the loop, parse_datum having returned last_datum
list_tail(data_list, last_datum) ==
  LET appended == append(data_list, last_datum.res.it)
  IN IF is_thrown(last_datum.res) THEN last_datum
     ELSE IF is_complete(last_datum.res)
     THEN IF appended = TypeError
          THEN [res |-> ThrownTypeError, in |-> last_datum.in]
          ELSE parse_list_loop(last_datum.in, appended)
     ELSE [res |-> ParserError(last_datum.res.lex_result,
             "could not match to last datum for improper list"),
           in |-> last_datum.in]

-----------------------------------------------------------------------------
(* Inputs of the parser *)

T_lp == Token("paren-left", "(")
T_rp == Token("paren-right", ")")
T_dot == Token("dot", ".")
T_quote == Token("quote", "'")
T_id(str) == Token("identifier", str)
T_num(str) == Token("number", str)
T_str(str) == Token("string", str)
T_true == Token("boolean-true", "#t")
T_false == Token("boolean-false", "#f")
T_comment == Token("comment", "; c")
T_datum_comment == Token("datum-comment", "#;")
T_eof == Token("end-of-file", "")
T_char(str) == Token("character", str)
\* (the lexeme of the backtick token is spelled out)
T_backtick == Token("backtick", "backtick")
T_comma == Token("comma", ",")
T_comma_at == Token("comma-at", ",@")

\* the results every short lexer input is built from
Alphabet == {T_lp, T_rp, T_dot, T_quote, T_id("a"), T_num("1"), LexError}

RECURSIVE InputsOfLen(_)
InputsOfLen(n) ==
  IF n = 0 THEN {<<>>}
  ELSE {<<r>> \o s : r \in Alphabet, s \in InputsOfLen(n - 1)}

\* longer inputs, and inputs with the rarer tokens
NamedInputs ==
  { <<T_lp, T_id("+"), T_num("1")>>,
    <<T_lp, T_id("+"), T_num("1"), T_num("2"), T_rp>>,
    <<T_lp, T_id("a"), T_id("b")>>,
    <<T_lp, T_id("a"), T_id("b"), T_id("c"), T_rp>>,
    <<T_lp, T_num("1"), T_num("2"), T_dot, T_num("3"), T_rp>>,
    <<T_lp, T_num("1"), T_dot, T_num("2"), T_num("3"), T_rp>>,
    <<T_lp, T_id("a"), T_id("b"), T_dot, T_id("c"), T_rp>>,
    <<T_lp, T_id("a"), T_dot, T_id("b"), T_id("c"), T_rp>>,
    <<T_lp, T_id("a"), T_dot, T_id("b"), T_dot, T_id("c"), T_rp>>,
    <<T_quote, T_lp, T_id("a"), T_dot, T_rp>>,
    <<T_quote, T_quote, T_lp, T_id("a"), T_rp>>,
    <<T_lp, T_id("a"), LexError, T_id("b"), T_rp>>,
    <<T_comment, T_comment, T_str("s"), T_true>>,
    <<T_datum_comment, T_id("a"), T_false>>,
    <<T_datum_comment, T_datum_comment, T_id("a"), T_id("b")>>,
    <<T_lp, T_true, T_eof>>,
    <<T_eof>>,
    <<T_char("x"), T_id("a")>>,
    <<T_str("s"), T_id("a")>>,
    <<T_true, T_false>>,
    <<T_false, T_true>>,
    <<T_datum_comment, T_id("a"), T_datum_comment, T_id("b"), T_id("c")>>,
    <<T_datum_comment, T_id("a"), T_comment, T_id("b")>>,
    <<T_comment, T_datum_comment, T_id("a"), T_id("b")>>,
    <<T_backtick, T_id("a")>>,
    <<T_comma, T_id("a")>>,
    <<T_comma_at, T_id("a")>>,
    <<T_lp, T_id("a"), T_lp, T_id("b"), T_rp, T_str("s"), T_rp, T_id("c")>> }

LexerInputs ==
  NamedInputs \cup UNION {InputsOfLen(n) : n \in 0..MaxLexLen}

\* what the host appends after a first parse
MoreInputs ==
  { <<T_num("2"), T_rp>>, <<T_id("c"), T_rp>>, <<T_rp>> }

-----------------------------------------------------------------------------
(* The Tokenizer (src/src/shaka_scheme/system/lexer/Tokenizer.hpp).        *)
(*                                                                         *)
(* The character source is the sequence of the characters not read yet;    *)
(* each character is a one-character string and EOF is what peek and get   *)
(* of the stream give at the end of the input.  Buffers and lexemes are    *)
(* sequences of characters.  A function that reads characters gives back   *)
(* what it returns together with the characters it leaves unread.          *)

EOF == "EOF"

in_peek(chars) == IF chars = <<>> THEN EOF ELSE Head(chars)
in_get(chars) == IF chars = <<>> THEN <<>> ELSE Tail(chars)

Letters ==
  {"a", "b", "c", "d", "e", "f", "g", "h", "i", "j", "k", "l", "m", "n",
   "o", "p", "q", "r", "s", "t", "u", "v", "w", "x", "y", "z"}
Digits == {"0", "1", "2", "3", "4", "5", "6", "7", "8", "9"}
Spaces == {" ", "\n", "\t"}

isalpha(c) == c \in Letters
isdigit(c) == c \in Digits
isspace(c) == c \in Spaces

is_delimiter(c) == isspace(c) \/ c \in {"|", "(", ")", "\"", ";"}

is_special_initial(c) ==
  c \in {"!", "$", "%", "&", "*", "/", "!", ":", ">", "=", ">", "?", "^",
         "_", "!"}

is_explicit_sign(c) == c = "+" \/ c = "-"
is_special_subsequent(c) == c = "." \/ c = "@" \/ is_explicit_sign(c)
is_letter(c) == isalpha(c)
is_digit(c) == isdigit(c)
is_initial(c) == is_letter(c) \/ is_special_initial(c)
is_subsequent(c) == is_initial(c) \/ is_digit(c) \/ is_special_subsequent(c)
is_sign_subsequent(c) == is_initial(c) \/ is_explicit_sign(c) \/ c = "@"
is_dot_subsequent(c) == is_sign_subsequent(c) \/ c = "."
is_hex_digit(c) == isdigit(c) \/ c \in {"a", "b", "c", "d", "e", "f"}

\* the longest prefix of chars whose characters satisfy the class
RECURSIVE Run(_, _)
Run(chars, class) ==
  IF chars # <<>> /\ Head(chars) \in class
  THEN <<Head(chars)>> \o Run(Tail(chars), class)
  ELSE <<>>

Drop(chars, n) == SubSeq(chars, n + 1, Len(chars))

\* the characters of the model
Chars ==
  Letters \cup Digits \cup Spaces
    \cup {"!", "$", "%", "&", "*", "/", ":", "<", "=", ">", "?", "^", "_",
          "~", ".", "@", "+", "-", "(", ")", "\"", ";", "|", "#", "'",
          ",", "\\", EOF}

Alphas == {c \in Chars : isalpha(c)}
Subsequents == {c \in Chars : is_subsequent(c)}
HexDigits == {c \in Chars : is_hex_digit(c)}
NonDelimiters == {c \in Chars : ~is_delimiter(c) /\ c # EOF}

\* Token(type, str) of the Tokenizer
TokenOf(type, str) == [type |-> type, str |-> str]

\* what a lexer function ends with: a token, no token (the caller goes
\* on), a thrown exception, or a loop that does not end
Returned(token, chars) ==
  [kind |-> "token", token |-> token, code |-> 0, in |-> chars]
NoToken(chars) ==
  [kind |-> "none", token |-> TokenOf("INVALID", <<>>), code |-> 0,
   in |-> chars]
Thrown(code, chars) ==
  [kind |-> "throw", token |-> TokenOf("INVALID", <<>>), code |-> code,
   in |-> chars]
Hangs ==
  [kind |-> "hang", token |-> TokenOf("INVALID", <<>>), code |-> 0,
   in |-> <<>>]

parse_paren_start(chars) ==
  IF in_peek(chars) = "("
  THEN Returned(TokenOf("PAREN_START", <<"(">>), in_get(chars))
  ELSE Thrown(20000, chars)

parse_paren_end(chars) ==
  IF in_peek(chars) = ")"
  THEN Returned(TokenOf("PAREN_END", <<")">>), in_get(chars))
  ELSE Thrown(20001, chars)

\* the digits read, appended to the buffer
Digits_read(chars, buffer) ==
  [buffer |-> buffer \o Run(chars, Digits),
   in |-> Drop(chars, Len(Run(chars, Digits))),
   any |-> Run(chars, Digits) # <<>>]

\* if (is_explicit_sign(in.peek())) buffer += in.get();
number_sign(chars, buffer) ==
  IF is_explicit_sign(in_peek(chars))
  THEN [buffer |-> buffer \o <<in_peek(chars)>>, in |-> in_get(chars),
        number |-> FALSE]
  ELSE [buffer |-> buffer, in |-> chars, number |-> FALSE]

\* the integer part
number_integer(n) ==
  [buffer |-> Digits_read(n.in, n.buffer).buffer,
   in |-> Digits_read(n.in, n.buffer).in,
   number |-> Digits_read(n.in, n.buffer).any]

\* a dot and the fractional part
number_fraction(n) ==
  IF in_peek(n.in) = "."
  THEN [buffer |-> Digits_read(in_get(n.in), n.buffer \o <<".">>).buffer,
        in |-> Digits_read(in_get(n.in), n.buffer \o <<".">>).in,
        number |-> TRUE]
  ELSE n

\* a slash and the denominator
number_rational(n) ==
  IF in_peek(n.in) = "/"
  THEN [buffer |-> Digits_read(in_get(n.in), n.buffer \o <<"/">>).buffer,
        in |-> Digits_read(in_get(n.in), n.buffer \o <<"/">>).in,
        number |-> n.number
                     \/ Digits_read(in_get(n.in), n.buffer \o <<"/">>).any]
  ELSE n

number_token(n) ==
  IF n.number THEN Returned(TokenOf("NUMBER", n.buffer), n.in)
  ELSE Returned(TokenOf("INVALID", <<>>), n.in)

parse_number(chars, buffer) ==
  number_token(number_rational(number_fraction(number_integer(
    number_sign(chars, buffer)))))

\* an exception that is no TokenizerException (a thrown C string, the
\* std::invalid_argument of std::stoi)
ThrownOther(chars) ==
  [kind |-> "throw-other", token |-> TokenOf("INVALID", <<>>), code |-> 0,
   in |-> chars]

\* the character with the scalar value written by the hex digits
HexChar(digits) == <<"hex">> \o digits

\* parse_hex_scalar_value_character
parse_hex_scalar_value_character(chars) ==
  IF is_hex_digit(in_peek(chars))
  THEN LET buffer == Run(chars, HexDigits)
       IN Returned(TokenOf("CHARACTER", <<HexChar(buffer)>>),
                   Drop(chars, Len(buffer)))
  ELSE Thrown(20004, chars)

\* what one string element leaves: the string so far and the characters
\* not read, or a thrown exception
Element(str, chars) == [kind |-> "ok", str |-> str, code |-> 0, in |-> chars]
BadElement(code, chars) ==
  [kind |-> "throw", str |-> <<>>, code |-> code, in |-> chars]

\* the named character escapes and the characters they stand for
NamedEscapes ==
  { <<<<"a", "l", "a", "r", "m">>, <<"BEL">>>>,
    <<<<"b", "a", "c", "k", "s", "p", "a", "c", "e">>, <<"BS">>>>,
    <<<<"d", "e", "l", "e", "t", "e">>, <<"DEL">>>>,
    <<<<"e", "s", "c", "a", "p", "e">>, <<"ESC">>>>,
    <<<<"n", "e", "w", "l", "i", "n", "e">>, <<"\n">>>>,
    <<<<"n", "u", "l", "l">>, <<>>>>,
    <<<<"r", "e", "t", "u", "r", "n">>, <<"CR">>>>,
    <<<<"s", "p", "a", "c", "e">>, <<" ">>>>,
    <<<<"t", "a", "b">>, <<"\t">>>> }

IsNamedEscape(buffer) == \E e \in NamedEscapes : e[1] = buffer
NamedEscape(buffer) == (CHOOSE e \in NamedEscapes : e[1] = buffer)[2]

\* the mnemonic escapes \a \b \t \n \r
Mnemonic(c) ==
  CASE c = "a" -> "BEL"
    [] c = "b" -> "BS"
    [] c = "t" -> "\t"
    [] c = "n" -> "\n"
    [] c = "r" -> "CR"

parse_string_element(chars, str) ==
  IF in_peek(chars) = "\\"
  THEN
    LET in1 == in_get(chars)
        c == in_peek(in1)
    IN IF isalpha(c)
       THEN
         IF c \in {"a", "b", "t", "n", "r"}
         THEN Element(str \o <<Mnemonic(c)>>, in_get(in1))
         ELSE IF c = "x"
         THEN
           LET in2 == in_get(in1)
           IN IF is_hex_digit(in_peek(in2))
              THEN LET hex == parse_hex_scalar_value_character(in2)
                   IN Element(str \o hex.token.str, hex.in)
              ELSE Element(str \o <<"x">>, in2)
         ELSE
           LET buffer == Run(in1, NonDelimiters)
               in2 == Drop(in1, Len(buffer))
           IN IF isspace(in_peek(in2)) /\ Len(buffer) = 0
              THEN Element(str, Drop(in2, Len(Run(in2, Spaces))))
              ELSE IF IsNamedEscape(buffer)
              THEN Element(str \o NamedEscape(buffer), in2)
              ELSE BadElement(20002, in2)
       ELSE IF c = "\""
       THEN Element(str \o <<"\"">>, in_get(in1))
       ELSE Element(str \o <<c>>, in_get(in1))
  ELSE Element(str \o <<in_peek(chars)>>, in_get(chars))

\* while (in.peek() != '"') parse_string_element(buffer); at the end of
\* the input every pass appends the EOF character and the loop never ends
RECURSIVE parse_string_loop(_, _), parse_string_next(_)
parse_string_loop(chars, buffer) ==
  IF in_peek(chars) = "\""
  THEN Returned(TokenOf("STRING", buffer), in_get(chars))
  ELSE IF chars = <<>> THEN Hangs
  ELSE parse_string_next(parse_string_element(chars, buffer))

\* after one element: the exception leaves the loop, else the next pass
parse_string_next(e) ==
  IF e.kind = "throw" THEN Thrown(e.code, e.in)
  ELSE parse_string_loop(e.in, e.str)

parse_string(chars) ==
  IF in_peek(chars) = "\""
  THEN parse_string_loop(in_get(chars), <<>>)
  ELSE Thrown(20003, chars)

\* while (in.peek() != '\n') in.get(); does not end without a newline
RECURSIVE parse_line_comment(_)
parse_line_comment(chars) ==
  IF chars = <<>> THEN Hangs
  ELSE IF Head(chars) = "\n" THEN NoToken(Tail(chars))
  ELSE parse_line_comment(Tail(chars))

\* the loop of the nested comment in rule_hash, entered with the
\* characters after the '#' of the opening
RECURSIVE nested_comment(_, _)
nested_comment(chars, depth_count) ==
  IF depth_count <= 0 THEN NoToken(chars)
  ELSE IF chars = <<>> THEN Hangs
  ELSE IF in_peek(chars) = "|"
  THEN IF in_peek(in_get(chars)) = "#"
       THEN nested_comment(in_get(in_get(chars)), depth_count - 1)
       ELSE nested_comment(in_get(chars), depth_count)
  ELSE IF in_peek(chars) = "#"
  THEN IF in_peek(in_get(chars)) = "|"
       THEN nested_comment(in_get(in_get(chars)), depth_count + 1)
       ELSE nested_comment(in_get(chars), depth_count)
  ELSE nested_comment(in_get(chars), depth_count)

rule_hash(chars) ==
  IF in_peek(chars) # "#" THEN Thrown(20012, chars)
  ELSE
    LET in1 == in_get(chars)
        c == in_peek(in1)
        in2 == in_get(in1)
    IN CASE c = "(" -> Returned(TokenOf("VECTOR_START", <<"#", "(">>), in2)
         [] c = "u" ->
              IF in_peek(in2) = "8"
              THEN IF in_peek(in_get(in2)) = "("
                   THEN Returned(TokenOf("BYTEVECTOR_START",
                                         <<"#", "u", "8", "(">>),
                                 in_get(in_get(in2)))
                   ELSE NoToken(in_get(in2))
              ELSE Thrown(20007, in2)
         [] c = "\\" ->
              IF isalpha(in_peek(in2))
              THEN
                IF in_peek(in2) = "x"
                THEN IF is_hex_digit(in_peek(in_get(in2)))
                     THEN parse_hex_scalar_value_character(in_get(in2))
                     ELSE Returned(TokenOf("CHARACTER", <<"x">>),
                                   in_get(in2))
                ELSE
                  LET buffer == Run(in2, NonDelimiters)
                      in3 == Drop(in2, Len(buffer))
                  IN IF Len(buffer) = 1 THEN NoToken(in3)
                     ELSE IF IsNamedEscape(buffer)
                     THEN Returned(TokenOf("CHARACTER", NamedEscape(buffer)),
                                   in3)
                     ELSE ThrownOther(in3)
              ELSE NoToken(in2)
         [] c = "t" ->
              LET buffer == Run(in1, Alphas)
              IN IF buffer = <<"t", "r", "u", "e">> \/ buffer = <<"t">>
                 THEN Returned(TokenOf("BOOLEAN_TRUE", <<"#", "t">>),
                               Drop(in1, Len(buffer)))
                 ELSE Thrown(20008, Drop(in1, Len(buffer)))
         [] c = "f" ->
              LET buffer == Run(in1, Alphas)
              IN IF buffer = <<"f", "a", "l", "s", "e">> \/ buffer = <<"f">>
                 THEN Returned(TokenOf("BOOLEAN_FALSE", <<"#", "f">>),
                               Drop(in1, Len(buffer)))
                 ELSE Thrown(20009, Drop(in1, Len(buffer)))
         [] c = "|" -> nested_comment(in1, 1)
         [] c = ";" -> Returned(TokenOf("DATUM_COMMENT", <<"#", ";">>), in2)
         [] c = "!" ->
              LET buffer == Run(in2, NonDelimiters)
                  in3 == Drop(in2, Len(buffer))
              IN IF in3 = <<>> THEN Hangs
                 ELSE Returned(TokenOf("DIRECTIVE", buffer), in3)
         [] OTHER -> Thrown(20011, in1)

\* handle_inline_hex_escape: the ';' that ends the escape is not read
handle_inline_hex_escape(chars, interm) ==
  LET buffer == Run(chars, HexDigits)
      in1 == Drop(chars, Len(buffer))
  IN IF in_peek(in1) = ";"
     THEN IF buffer = <<>> THEN ThrownOther(in1)
          ELSE Returned(TokenOf("IDENTIFIER", interm \o <<HexChar(buffer)>>),
                        in1)
     ELSE Thrown(20018, in1)

\* while (handle_symbol_element(in, buffer)); the token of the result
\* carries the buffer, and at the end of the input the loop never ends
RECURSIVE handle_symbol_element(_, _), symbol_after_hex(_)
handle_symbol_element(chars, interm) ==
  IF in_peek(chars) = "|"
  THEN Returned(TokenOf("IDENTIFIER", interm), chars)
  ELSE IF in_peek(chars) = "\\"
  THEN
    LET in1 == in_get(chars)
        c == in_peek(in1)
    IN IF c = "x"
       THEN symbol_after_hex(handle_inline_hex_escape(in_get(in1), interm))
       ELSE IF c \in {"a", "b", "t", "n", "r"}
       THEN handle_symbol_element(in_get(in1), interm \o <<Mnemonic(c)>>)
       ELSE IF c = "|"
       THEN handle_symbol_element(in_get(in1), interm \o <<"|">>)
       ELSE Thrown(20017, in1)
  ELSE IF chars = <<>> THEN Hangs
  ELSE handle_symbol_element(in_get(chars), interm \o <<in_peek(chars)>>)

\* after an inline hex escape: the next element, or the exception
symbol_after_hex(hex) ==
  IF hex.kind = "token" THEN handle_symbol_element(hex.in, hex.token.str)
  ELSE hex

\* the branch of parse_token for an explicit sign: buffer = +in.get()
\* replaces the buffer, and the number is parsed into a new empty buffer
parse_sign(chars) ==
  LET buffer == <<in_peek(chars)>>
      in1 == in_get(chars)
      c == in_peek(in1)
  IN IF is_sign_subsequent(c)
     THEN LET rest == Run(in_get(in1), Subsequents)
          IN Returned(TokenOf("IDENTIFIER", <<c>> \o rest),
                      Drop(in1, 1 + Len(rest)))
     ELSE IF c = "."
     THEN
       LET in2 == in_get(in1)
           d == in_peek(in2)
       IN IF is_dot_subsequent(d)
          THEN LET rest == Run(in_get(in2), Subsequents)
               IN Returned(TokenOf("IDENTIFIER",
                                   buffer \o <<".", d>> \o rest),
                           Drop(in2, 1 + Len(rest)))
          ELSE IF isdigit(d) THEN parse_number(in2, buffer \o <<".">>)
          ELSE Thrown(20014, in2)
     ELSE IF isdigit(c) THEN parse_number(in1, <<>>)
     ELSE Returned(TokenOf("IDENTIFIER", buffer), in1)

\* the vertical line that ends the identifier
symbol_end(symbol) ==
  IF symbol.kind = "token"
  THEN IF in_peek(symbol.in) = "|"
       THEN Returned(symbol.token, in_get(symbol.in))
       ELSE Thrown(20013, symbol.in)
  ELSE symbol

RECURSIVE parse_token(_), parse_token_again(_)
parse_token(chars) ==
  LET c == in_peek(chars)
  IN CASE c = "'" -> Returned(TokenOf("QUOTE", <<"'">>), in_get(chars))
       [] c = "BACKTICK" ->
            Returned(TokenOf("BACKTICK", <<"BACKTICK">>), in_get(chars))
       [] c = "," ->
            IF in_peek(in_get(chars)) = "@"
            THEN Returned(TokenOf("COMMA_ATSIGN", <<",", "@">>),
                          in_get(in_get(chars)))
            ELSE Returned(TokenOf("COMMA", <<",">>), in_get(chars))
       [] c = "." -> Returned(TokenOf("PERIOD", <<".">>), in_get(chars))
       [] c = "(" -> parse_paren_start(chars)
       [] c = ")" -> parse_paren_end(chars)
       [] c = "\"" -> parse_string(chars)
       [] c = ";" -> parse_token_again(parse_line_comment(chars))
       [] c = EOF -> Returned(TokenOf("END_OF_FILE", <<>>), in_get(chars))
       [] isspace(c) -> parse_token(in_get(chars))
       [] c = "#" -> parse_token_again(rule_hash(chars))
       [] is_initial(c) ->
            LET rest == Run(in_get(chars), Subsequents)
            IN Returned(TokenOf("IDENTIFIER", <<c>> \o rest),
                        Drop(chars, 1 + Len(rest)))
       [] c = "|" -> symbol_end(handle_symbol_element(in_get(chars), <<>>))
       [] is_explicit_sign(c) -> parse_sign(chars)
       [] isdigit(c) -> parse_number(chars, <<>>)
       [] OTHER -> Thrown(20016, chars)

\* done = false: the loop of parse_token goes round when no token was made
parse_token_again(r) ==
  IF r.kind = "none" THEN parse_token(r.in) ELSE r

(* The Tokenizer object: the character source and the deque of tokens.     *)
(* A call gives back what it returns (ret: a token, a thrown exception or  *)
(* a loop that does not end) and the object it leaves.                     *)

Tokenizer(chars) == [in |-> chars, tokens |-> <<>>]

\* tokens.push_back(t) with the token parse_token returned; an exception
\* leaves the deque as it is
push_back(t, r) ==
  IF r.kind = "token"
  THEN [ret |-> r, t |-> [in |-> r.in, tokens |-> Append(t.tokens, r.token)]]
  ELSE [ret |-> r, t |-> [t EXCEPT !.in = r.in]]

read_next_token(t) == push_back(t, parse_token(t.in))

\* auto front = tokens.front(); return front;
front(n) ==
  IF n.ret.kind = "token"
  THEN [ret |-> Returned(Head(n.t.tokens), n.t.in), t |-> n.t]
  ELSE n

\* auto front = tokens.front(); tokens.pop_front(); return front;
pop_front(n) ==
  IF n.ret.kind = "token"
  THEN [ret |-> Returned(Head(n.t.tokens), n.t.in),
        t |-> [n.t EXCEPT !.tokens = Tail(@)]]
  ELSE n

Tokenizer_get(t) ==
  IF t.tokens # <<>>
  THEN [ret |-> Returned(Head(t.tokens), t.in),
        t |-> [t EXCEPT !.tokens = Tail(@)]]
  ELSE pop_front(read_next_token(t))

\* variant of Tokenizer_peek: the token read is not kept in the deque
Tokenizer_peek_drop(t) ==
  IF t.tokens # <<>>
  THEN [ret |-> Returned(Head(t.tokens), t.in), t |-> t]
  ELSE pop_front(read_next_token(t))

Tokenizer_peek(t) ==
  IF t.tokens # <<>>
  THEN [ret |-> Returned(Head(t.tokens), t.in), t |-> t]
  ELSE front(read_next_token(t))

\* variant of Tokenizer_unget: the token is put at the back of the deque
Tokenizer_unget_back(t, token) == [t EXCEPT !.tokens = Append(@, token)]

Tokenizer_unget(t, token) == [t EXCEPT !.tokens = <<token>> \o @]

\* a run without a Tokenizer
NoTokenizer == [in |-> <<>>, tokens |-> <<>>, none |-> TRUE]

-----------------------------------------------------------------------------
(* Initial state: HeapVirtualMachine(a, x, e, r, s) *)

\* a global environment and a child of it that shadows x
InitEnvs ==
  << [vals |-> ("x" :> Num(10)) @@ ("y" :> Num(20)), parent |-> 0],
     [vals |-> ("x" :> Num(11)), parent |-> 1] >>

InitAccs == {NullPtr, Num(0)}

NoSteps == [frame |-> 0, return |-> 0]
NoMachine == [none |-> TRUE]
NoTwin == [at |-> NoMachine, m |-> NoMachine, stepped |-> FALSE]
NoReentry == [k |-> NullPtr, v |-> NullPtr, age |-> 0]
NoResult == [node |-> NullPtr, throws |-> FALSE, what |-> <<>>,
             value |-> NullPtr]

Init ==
  /\ acc \in InitAccs
  /\ exp \in Programs
  /\ prog = exp
  /\ env \in {1, 2}
  /\ rib = <<>>
  /\ frame = 0
  /\ envs = InitEnvs
  /\ frames = <<>>
  /\ status = "ok"
  /\ loads = 0
  /\ last = [op |-> "none", m |-> Machine]
  /\ snap = <<>>
  /\ argLog = <<TRUE, <<>>>>
  /\ reentry = NoReentry
  /\ result = NoResult
  /\ twin = NoTwin
  /\ count = NoSteps
  /\ pin = ParserInput(<<>>)
  /\ phist = <<>>
  /\ tk = NoTokenizer
  /\ thist = <<>>

-----------------------------------------------------------------------------
(* Actions *)

\* a closure built by conti carries the captured call frame
IsContinuation(d) == IsClosure(d) /\ d[5] # 0

HeadIs(op) == IsPair(exp) /\ IsSymbol(car(exp)) /\ car(exp) = Sym(op)

\* one call of evaluate_assembly_instruction with opcode op at entry
Step(op) ==
  /\ status = "ok"
  /\ op = "frame" => Len(frames) < MaxFrames
  /\ op = "conti" => Len(envs) < MaxEnvs
  /\ op = "argument" => Len(rib) < MaxRib
  /\ LET m == evaluate_assembly_instruction(Machine)
     IN /\ acc' = m.acc
        /\ exp' = m.exp
        /\ env' = m.env
        /\ rib' = m.rib
        /\ frame' = m.frame
        /\ envs' = m.envs
        /\ frames' = m.frames
        /\ status' = m.status
        /\ count' = IF m.status = "ok" /\ op \in DOMAIN count
                    THEN [count EXCEPT ![op] = @ + 1]
                    ELSE count
  /\ last' = [op |-> op, m |-> Machine]
  /\ snap' = IF op = "frame"
             THEN Append(snap, [env |-> env, rib |-> rib, frame |-> frame])
             ELSE snap
  /\ argLog' = CASE op = "frame" -> <<TRUE, <<>>>>
                 [] op = "argument" -> <<argLog[1], Append(argLog[2], acc)>>
                 [] op = "return" -> <<FALSE, <<>>>>
                 [] OTHER -> argLog
  /\ reentry' = IF reentry.age \in 1..(MaxAge - 1)
                THEN [reentry EXCEPT !.age = @ + 1]
                ELSE IF op = "apply" /\ IsContinuation(acc) /\ rib # <<>>
                THEN [k |-> acc, v |-> rib[1], age |-> 1]
                ELSE NoReentry
  /\ result' = NoResult
  /\ twin' = IF twin.at = Machine THEN twin ELSE NoTwin
  /\ UNCHANGED <<prog, loads, pvars, tvars>>

StepHalt == HeadIs("halt") /\ Step("halt")
StepRefer == HeadIs("refer") /\ Step("refer")
StepConstant == HeadIs("constant") /\ Step("constant")
StepClose == HeadIs("close") /\ Step("close")
StepTest == HeadIs("test") /\ Step("test")
StepAssign == HeadIs("assign") /\ Step("assign")
StepConti == HeadIs("conti") /\ Step("conti")
StepNuate == HeadIs("nuate") /\ Step("nuate")
StepFrame == HeadIs("frame") /\ Step("frame")
StepArgument == HeadIs("argument") /\ Step("argument")
StepApply == HeadIs("apply") /\ Step("apply")
StepReturn == HeadIs("return") /\ Step("return")
StepUnknown ==
  /\ \E h \in UnknownHeads : HeadIs(h)
  /\ Step(car(exp)[2])

\* nodes the evaluator hands to Variable::evaluate
EvalNodes == {<<"sym", "x">>, <<"sym", "y">>, <<"sym", "z">>, <<"num", 1>>}

\* the evaluator looks a node up in the current environment
EvalVariable ==
  /\ result = NoResult
  /\ \E node \in EvalNodes :
       result' = Variable_evaluate(envs, env, node)
  /\ UNCHANGED <<acc, exp, env, rib, frame, envs, frames, status,
                 prog, loads, last, snap, argLog, reentry, twin, count,
                 pvars, tvars>>

\* the host constructs a second machine, HeapVirtualMachine(a, x, e, r, s),
\* from the registers of the first; it keeps it until the first machine
\* steps from other registers
HeapVirtualMachine ==
  /\ status = "ok"
  /\ twin = NoTwin
  /\ twin' = [at |-> Machine, m |-> Machine, stepped |-> FALSE]
  /\ UNCHANGED <<acc, exp, env, rib, frame, envs, frames, status,
                 prog, loads, last, snap, argLog, reentry, result, count,
                 pvars, tvars>>

\* the opcode at the head of the expression of machine m
OpcodeOf(m) == car(m.exp)[2]

\* one call of evaluate_assembly_instruction on the second machine, after
\* the first machine has stepped from the same registers
StepTwin ==
  /\ twin # NoTwin
  /\ ~twin.stepped
  /\ last.m = twin.at
  /\ last.op = OpcodeOf(twin.at)
  /\ twin' = [twin EXCEPT !.m = evaluate_assembly_instruction(twin.at),
                          !.stepped = TRUE]
  /\ UNCHANGED <<acc, exp, env, rib, frame, envs, frames, status,
                 prog, loads, last, snap, argLog, reentry, result, count,
                 pvars, tvars>>

\* the host hands the next program to a halted machine
set_expression ==
  /\ status = "ok"
  /\ HeadIs("halt")
  /\ loads < MaxLoads
  /\ \E x \in Programs :
       /\ exp' = x
       /\ prog' = x
       /\ last' = [op |-> "set_expression", m |-> Machine]
  /\ loads' = loads + 1
  /\ UNCHANGED <<acc, env, rib, frame, envs, frames, status, snap, argLog,
                 reentry, result, twin, count, pvars, tvars>>

Next ==
  \/ StepHalt
  \/ StepRefer
  \/ StepConstant
  \/ StepClose
  \/ StepTest
  \/ StepAssign
  \/ StepConti
  \/ StepNuate
  \/ StepFrame
  \/ StepArgument
  \/ StepApply
  \/ StepReturn
  \/ StepUnknown
  \/ set_expression
  \/ EvalVariable
  \/ HeapVirtualMachine
  \/ StepTwin

Spec == Init /\ [][Next]_vars

TypeOK ==
  /\ env \in 1..Len(envs)
  /\ frame \in 0..Len(frames)
  /\ Len(snap) = Len(frames)
  /\ status \in {"ok", "crash", "UnboundVariable"}
  /\ reentry.age \in 0..MaxAge

-----------------------------------------------------------------------------
(* The parser as a state machine: a host that owns one ParserInput calls   *)
(* parse_datum and append_input on it.                                     *)

PInit ==
  /\ \E input \in LexerInputs : pin = ParserInput(input)
  /\ phist = <<>>
  /\ tk = NoTokenizer
  /\ thist = <<>>
  /\ acc = NullPtr
  /\ exp = I_halt
  /\ prog = I_halt
  /\ env = 1
  /\ rib = <<>>
  /\ frame = 0
  /\ envs = InitEnvs
  /\ frames = <<>>
  /\ status = "ok"
  /\ loads = 0
  /\ last = [op |-> "none", m |-> Machine]
  /\ snap = <<>>
  /\ argLog = <<TRUE, <<>>>>
  /\ reentry = NoReentry
  /\ result = NoResult
  /\ twin = NoTwin
  /\ count = NoSteps

\* the tokens the input still holds, looked-ahead ones first
Stream(in) == in.tokens \o in.lex.input

\* the call on the input start returns r: the input it leaves and the
\* record of the call
ParserCalled(op, start, r) ==
  /\ pin' = r.in
  /\ phist' = Append(phist, [op |-> op, before |-> start, res |-> r.res,
                             after |-> r.in])

\* the input handed to parse_datum
Restarted(in) == [in EXCEPT !.lex.failed = FALSE]

ParseDatum ==
  /\ Len(phist) < MaxCalls
  /\ ParserCalled("parse_datum", Restarted(pin), parse_datum(Restarted(pin)))
  /\ UNCHANGED <<vmvars, tvars>>

\* the host calls parse_simple on a fresh ParserInput
ParseSimple ==
  /\ phist = <<>>
  /\ ParserCalled("parse_simple", pin, parse_simple(pin))
  /\ UNCHANGED <<vmvars, tvars>>

\* the host calls parse_list on a fresh ParserInput
ParseList ==
  /\ phist = <<>>
  /\ ParserCalled("parse_list", pin, parse_list(pin))
  /\ UNCHANGED <<vmvars, tvars>>

AppendInput ==
  /\ Len(phist) < MaxCalls - 1
  /\ phist # <<>>
  /\ phist[Len(phist)].op = "parse_datum"
  /\ \E more \in MoreInputs :
       /\ pin' = append_input(pin, more)
       /\ phist' = Append(phist, [op |-> "append_input", before |-> pin,
                                  res |-> Void,
                                  after |-> append_input(pin, more)])
  /\ UNCHANGED <<vmvars, tvars>>

PNext ==
  \/ ParseDatum
  \/ ParseSimple
  \/ ParseList
  \/ AppendInput

SpecParser == PInit /\ [][PNext]_vars

-----------------------------------------------------------------------------
(* The lexer objects as a state machine: a host that owns one Tokenizer,   *)
(* or one ParserInput, calls get, peek and unget on it.                    *)

CharSeqs(S, n) == UNION {[1..k -> S] : k \in 0..n}

\* the initial characters of an identifier: letters and
\* ! $ % & * / : < = > ? ^ _ ~
InitialChars ==
  {"a", "x", "!", "$", "%", "&", "*", "/", ":", "<", "=", ">", "?", "^",
   "_", "~"}

CommentInputs == CharSeqs({"#", "|", "a"}, MaxChars)
StringInputs ==
  {<<"\"">> \o s : s \in CharSeqs({"a", "\"", "\\"}, MaxChars - 1)}
SignInputs ==
  {<<g>> \o s : g \in {"+", "-"}, s \in CharSeqs({"5", ".", "x"}, MaxChars - 1)}
InitialInputs ==
  {<<c>> \o s : c \in InitialChars, s \in CharSeqs({"b", "-"}, MaxChars - 3)}

NamedCharInputs ==
  { <<"#", "|", "#", "|", " ", "a", " ", "|", "#", " ", "b", " ", "|", "#",
      " ", "7">>,
    <<"#", "|", " ", "#", "|", " ", "a", " ", "|", "#", " ", "b", " ", "|",
      "#", " ", "7">>,
    <<"#", "|", " ", "a", " ", "|", "#", " ", "7">>,
    <<"+", "3", ".", "5">>,
    <<"-", "5", " ", "x">>,
    <<"+", "a", "b", "c">>,
    <<"1", "/", "2", " ", "3", ".", "5">>,
    <<"\"", "a", "b", "c">>,
    <<"\"", "\\", "q">>,
    <<"\"", "a", "b", "\"", " ", "c">>,
    <<"\"", "\\", "n", "\\", "x", "4", "1", "\"">>,
    <<"\"", "\\", "s", "p", "a", "c", "e", "\"">>,
    <<"(", "a", " ", ".", " ", "b", ")">>,
    <<"'", "a", " ", ",", "@", "b", " ", ",", "c", " ", "BACKTICK", "d">>,
    <<"#", "t", " ", "#", "f", "a", "l", "s", "e", " ", "#", "t", "x">>,
    <<";", " ", "c", "\n", "a">>,
    <<";", " ", "c">>,
    <<"|", "a", " ", "\\", "|", "b", "|">>,
    <<"|", "\\", "x", "4", "1", ";", "|">>,
    <<"|", "\\", "q", "|">>,
    <<"|", "a">>,
    <<"#", "\\", "a", " ", "b">>,
    <<"#", "\\", "(", " ", "a">>,
    <<"#", "\\", "s", "p", "a", "c", "e", " ", "#", "\\", "x", "4", "1">>,
    <<"#", "\\", "z", "z">>,
    <<"#", "!", "f", "o", "l", "d", " ", "a">>,
    <<"#", "!", "f">>,
    <<"#", "(", "#", "u", "8", "(", "#", ";", "#", "u", "8", "a">>,
    <<"#", "u", "x">>,
    <<"@", "a">>,
    <<"a", "b", " ", "c", "d", " ", "e">> }

CharInputs ==
  CommentInputs \cup StringInputs \cup SignInputs \cup InitialInputs
    \cup NamedCharInputs

\* the tokens a host pushes back
UngetTokens == {TokenOf("IDENTIFIER", <<"u">>), TokenOf("NUMBER", <<"9">>)}
UngetResults == {T_id("u"), T_num("9")}

LInit ==
  /\ \/ /\ \E chars \in CharInputs : tk = Tokenizer(chars)
        /\ pin = ParserInput(<<>>)
     \/ /\ tk = NoTokenizer
        /\ \E input \in UNION {InputsOfLen(n) : n \in 0..(MaxLexLen - 2)} :
             pin = ParserInput(input)
  /\ thist = <<>>
  /\ phist = <<>>
  /\ acc = NullPtr
  /\ exp = I_halt
  /\ prog = I_halt
  /\ env = 1
  /\ rib = <<>>
  /\ frame = 0
  /\ envs = InitEnvs
  /\ frames = <<>>
  /\ status = "ok"
  /\ loads = 0
  /\ last = [op |-> "none", m |-> Machine]
  /\ snap = <<>>
  /\ argLog = <<TRUE, <<>>>>
  /\ reentry = NoReentry
  /\ result = NoResult
  /\ twin = NoTwin
  /\ count = NoSteps

\* a call of the history: the object, the operation, its argument, the
\* object before and after, and what the call returned
Call(obj, op, arg, before, ret, after) ==
  [obj |-> obj, op |-> op, arg |-> arg, before |-> before, ret |-> ret,
   after |-> after]

NoArg == [kind |-> "none"]
NoReturn == [kind |-> "void"]

\* a call on the Tokenizer did not come back
Hung == \E i \in 1..Len(thist) : thist[i].ret.kind = "hang"

\* the call returns r: the object it leaves and the record of the call
TokenizerCalled(op, r) ==
  /\ tk' = r.t
  /\ thist' = Append(thist, Call("Tokenizer", op, NoArg, tk, r.ret, r.t))

ParserInputCalled(op, r) ==
  /\ pin' = r.in
  /\ thist' = Append(thist, Call("ParserInput", op, NoArg, pin, r.ret, r.in))

TokenizerGet ==
  /\ tk # NoTokenizer
  /\ ~Hung
  /\ Len(thist) < MaxOps
  /\ TokenizerCalled("get", Tokenizer_get(tk))
  /\ UNCHANGED <<vmvars, pvars>>

TokenizerPeek ==
  /\ tk # NoTokenizer
  /\ ~Hung
  /\ Len(thist) < MaxOps
  /\ TokenizerCalled("peek", Tokenizer_peek(tk))
  /\ UNCHANGED <<vmvars, pvars>>

TokenizerUnget ==
  /\ tk # NoTokenizer
  /\ ~Hung
  /\ Len(thist) < MaxOps
  /\ \E token \in UngetTokens :
       /\ tk' = Tokenizer_unget(tk, token)
       /\ thist' = Append(thist, Call("Tokenizer", "unget", token, tk,
                                      NoReturn, Tokenizer_unget(tk, token)))
  /\ UNCHANGED <<vmvars, pvars>>

ParserInputGet ==
  /\ tk = NoTokenizer
  /\ Len(thist) < MaxOps
  /\ ParserInputCalled("get", ParserInput_get(pin))
  /\ UNCHANGED <<vmvars, phist, tk>>

ParserInputPeek ==
  /\ tk = NoTokenizer
  /\ Len(thist) < MaxOps
  /\ ParserInputCalled("peek", ParserInput_peek(pin))
  /\ UNCHANGED <<vmvars, phist, tk>>

ParserInputUnget ==
  /\ tk = NoTokenizer
  /\ Len(thist) < MaxOps
  /\ \E token \in UngetResults :
       /\ pin' = ParserInput_unget(pin, token)
       /\ thist' = Append(thist, Call("ParserInput", "unget", token, pin,
                                      NoReturn,
                                      ParserInput_unget(pin, token)))
  /\ UNCHANGED <<vmvars, phist, tk>>

LNext ==
  \/ TokenizerGet
  \/ TokenizerPeek
  \/ TokenizerUnget
  \/ ParserInputGet
  \/ ParserInputPeek
  \/ ParserInputUnget

SpecLexer == LInit /\ [][LNext]_vars

-----------------------------------------------------------------------------
(* Properties *)

\* operands of the instruction the last step executed
LastExp == last.m.exp
Operand1 == car(cdr(LastExp))
Operand2 == car(cdr(cdr(LastExp)))

IsHalt(d) == IsPair(d) /\ car(d) = Sym("halt")
IsConstant(d) == IsPair(d) /\ car(d) = Sym("constant")

\* a chain of nested constant instructions that ends in (halt)
RECURSIVE IsConstantChain(_)
IsConstantChain(d) ==
  /\ IsConstant(d)
  /\ LET x == car(cdr(cdr(d))) IN IsHalt(x) \/ IsConstantChain(x)

RECURSIVE InnermostObj(_)
InnermostObj(d) ==
  LET x == car(cdr(cdr(d)))
  IN IF IsHalt(x) THEN car(cdr(d)) ELSE InnermostObj(x)

\* C1: a step on (constant obj x) sets the accumulator to obj and the
\* expression to x; a program that is a chain of constants ending in (halt)
\* has, once the expression head is halt, the innermost obj in the
\* accumulator.
C1_Constant ==
  /\ last.op = "constant" =>
       /\ status = "ok"
       /\ acc = Operand1
       /\ exp = Operand2
  /\ (IsConstantChain(prog) /\ HeadIs("halt")) => acc = InnermostObj(prog)

C1_Witness ==
  /\ last.op = "constant"
  /\ prog = ProgConstants
  /\ HeadIs("halt")
  /\ acc = Num(2)

\* C2: a step on (test then else) with the boolean false datum of the
\* parser in the accumulator sets the expression to else.
C2_TestFalseTakesElse ==
  (last.op = "test" /\ last.m.acc = FalseDatum) => exp = Operand2

\* C3 as stated: the frame step takes the return expression from the first
\* operand and continues with the second.
C3_FrameRetFirst ==
  last.op = "frame" =>
    /\ frame = Len(last.m.frames) + 1
    /\ frames = Append(last.m.frames,
                       CallFrame(Operand1, last.m.env, last.m.rib,
                                 last.m.frame))
    /\ rib = <<>>
    /\ exp = Operand2

\* C3: a step on (frame x ret) pushes the new call frame
\* {ret, current env, current rib, previous frame register} whose return
\* expression is the second operand, makes it the frame register, resets
\* the rib to empty and sets the expression to the first operand x.
C3_FrameRetSecond ==
  last.op = "frame" =>
    /\ status = "ok"
    /\ frame = Len(last.m.frames) + 1
    /\ frames = Append(last.m.frames,
                       CallFrame(Operand2, last.m.env, last.m.rib,
                                 last.m.frame))
    /\ rib = <<>>
    /\ exp = Operand1

C3_Witness ==
  /\ last.op = "frame"
  /\ last.m.rib # <<>>
  /\ last.m.frame # 0
  /\ Operand1 # Operand2

\* C4: a step on (return) with a non-empty control stack sets expression,
\* env, rib and frame register from the top frame's fields and leaves the
\* accumulator unchanged.
C4_Return ==
  (last.op = "return" /\ last.m.frame # 0) =>
    LET top == last.m.frames[last.m.frame]
    IN /\ status = "ok"
       /\ exp = top.ret
       /\ env = top.env
       /\ rib = top.rib
       /\ frame = top.next
       /\ acc = last.m.acc

C4_Witness ==
  /\ last.op = "return"
  /\ last.m.frame # 0
  /\ frame # 0
  /\ rib # last.m.rib
  /\ exp # last.m.exp

\* C5: a return step that finds on top the frame pushed by a frame step
\* restores env, rib and frame register to what they were when that frame
\* step ran.
C5_FrameReturnRoundTrip ==
  (last.op = "return" /\ last.m.frame # 0) =>
    LET s == snap[last.m.frame]
    IN /\ env = s.env
       /\ rib = s.rib
       /\ frame = s.frame

C5_Witness ==
  /\ last.op = "return"
  /\ last.m.frame # 0
  /\ snap[last.m.frame].rib # <<>>
  /\ Len(last.m.rib) > 0
  /\ last.m.rib # snap[last.m.frame].rib
  /\ rib = snap[last.m.frame].rib

\* C6: a step on (apply) with a closure in the accumulator sets env to the
\* closure's environment extended with params bound to the rib values,
\* expression to the closure's body and rib to empty; the compiled
\* ((lambda (x) x) 5) ends at halt with accumulator 5 and an empty control
\* stack.
C6_Apply ==
  /\ (last.op = "apply" /\ IsClosure(last.m.acc)) =>
       LET clo == last.m.acc
       IN /\ exp = clo[3]
          /\ rib = <<>>
          /\ envs[env].parent = clo[2]
          /\ Len(last.m.rib) = Len(clo[4])
          /\ \A i \in 1..Len(clo[4]) :
               envs[env].vals[clo[4][i]] = last.m.rib[i]
  /\ (prog = ProgIdentity /\ HeadIs("halt")) =>
       (acc = Num(5) /\ frame = 0)

\* C7: a step on (argument x) appends the accumulator at the end of the
\* rib and sets expression to x; the rib holds the values pushed since the
\* last frame step in the order the argument steps ran.
C7_Argument ==
  /\ last.op = "argument" =>
       /\ rib = Append(last.m.rib, last.m.acc)
       /\ exp = Operand1
  /\ argLog[1] => rib = argLog[2]

C7_Witness ==
  /\ last.op = "argument"
  /\ argLog[1]
  /\ frame # 0
  /\ Len(rib) = 2
  /\ rib[1] # rib[2]

\* the environments from e up to the global one
RECURSIVE EnvChain(_, _)
EnvChain(h, e) == IF e = 0 THEN <<>> ELSE <<e>> \o EnvChain(h, h[e].parent)

\* v is the value of the innermost binding of key on the chain from e
IsInnermostBinding(h, e, key, v) ==
  LET chain == EnvChain(h, e)
  IN \E i \in 1..Len(chain) :
       /\ key \in DOMAIN h[chain[i]].vals
       /\ \A j \in 1..(i - 1) : key \notin DOMAIN h[chain[j]].vals
       /\ v = h[chain[i]].vals[key]

\* C8: a step on (refer var x) with var bound in the environment chain
\* sets the accumulator to the innermost binding of var and expression to
\* x, and leaves env, rib and frame unchanged.
C8_Refer ==
  (last.op = "refer"
     /\ is_defined(last.m.envs, last.m.env, Operand1[2])) =>
    /\ status = "ok"
    /\ IsInnermostBinding(last.m.envs, last.m.env, Operand1[2], acc)
    /\ exp = Operand2
    /\ env = last.m.env
    /\ rib = last.m.rib
    /\ frame = last.m.frame
    /\ envs = last.m.envs

C8_Witness ==
  /\ last.op = "refer"
  /\ last.m.env = 2
  /\ Operand1 = Sym("x")
  /\ acc = Num(11)
  /\ last.m.envs[1].vals["x"] # Num(11)

\* C9: a step on (conti x) puts in the accumulator a one-parameter closure
\* whose body is (nuate <captured-frame> v), with the captured frame the
\* frame register at the step and v the closure's parameter, and sets
\* expression to x; frame register, env and rib are unchanged.
C9_Conti ==
  last.op = "conti" =>
    LET captured == IF last.m.frame = 0 THEN NullPtr
                    ELSE FrameDatum(last.m.frames[last.m.frame])
    IN /\ status = "ok"
       /\ IsClosure(acc)
       /\ Len(acc[4]) = 1
       /\ acc[3] = list(<<Sym("nuate"), captured, Sym(acc[4][1])>>)
       /\ acc[5] = last.m.frame
       /\ exp = Operand1
       /\ frame = last.m.frame
       /\ env = last.m.env
       /\ rib = last.m.rib

\* C10: a step on (nuate s var) makes s the frame register and sets the
\* accumulator to env.get(var).
C10_Nuate ==
  (last.op = "nuate"
     /\ is_defined(last.m.envs, last.m.env, Operand2[2])) =>
    /\ acc = get_value(last.m.envs, last.m.env, Operand2[2])
    /\ frame # 0
    /\ FrameDatum(frames[frame]) = Operand1

-----------------------------------------------------------------------------
(* Continuations, errors of the machine *)

\* the call frame a continuation closure captured
CapturedFrame(k) == frames[k[5]]

\* C11: once a continuation k captured at call frame F is applied to a
\* value v (apply, then the nuate body, then its return), the accumulator
\* is v and expression, env, rib and frame register are what a return
\* from F gives, also when F was popped in between; no step alters the
\* fields of an allocated call frame.
C11_Reentry ==
  /\ \A i \in 1..Len(last.m.frames) : frames[i] = last.m.frames[i]
  /\ reentry.age = MaxAge =>
       LET F == CapturedFrame(reentry.k)
       IN /\ acc = reentry.v
          /\ exp = get_next_expression(F)
          /\ env = get_environment_pointer(F)
          /\ rib = get_value_rib(F)
          /\ frame = get_next_frame(F)

\* C12: a step whose expression head is no opcode ends in BadInstruction.
C12_BadInstruction ==
  last.op \in UnknownHeads => status = "BadInstruction"

\* C13: a step on (apply) with a non-closure accumulator ends in
\* NotApplicable.
C13_NotApplicable ==
  (last.op = "apply" /\ ~IsClosure(last.m.acc)) =>
    status = "NotApplicable"

\* key is bound in no environment on the chain from e
BoundNowhere(h, e, key) ==
  \A i \in 1..Len(EnvChain(h, e)) :
    key \notin DOMAIN h[EnvChain(h, e)[i]].vals

\* C14: a lookup of a symbol bound nowhere in the environment chain is an
\* error and not a value: a refer step on it ends in UnboundVariable and
\* leaves the accumulator alone, and Variable::evaluate throws an error
\* that names the variable; on a bound symbol Variable::evaluate returns
\* the value of the innermost binding.
C14_Unbound ==
  /\ (last.op = "refer"
        /\ BoundNowhere(last.m.envs, last.m.env, Operand1[2])) =>
       /\ status = "UnboundVariable"
       /\ acc = last.m.acc
       /\ exp = last.m.exp
  /\ (result # NoResult /\ result.node[1] = "sym") =>
       IF BoundNowhere(envs, env, result.node[2])
       THEN /\ result.throws
            /\ \E i \in 1..Len(result.what) :
                 result.what[i] = result.node[2]
       ELSE /\ ~result.throws
            /\ IsInnermostBinding(envs, env, result.node[2], result.value)

C14_Witness ==
  /\ last.op = "refer"
  /\ Operand1 = <<"sym", "z">>
  /\ status = "UnboundVariable"
  /\ result.node = <<"sym", "z">>
  /\ result.throws

\* C15: a step on (assign var x) creates no binding: with var bound in
\* the chain the innermost binding of var becomes the accumulator, every
\* other binding keeps its value and expression becomes x; with var
\* unbound the step ends in UnboundVariable and no environment changes.
C15_Assign ==
  last.op = "assign" =>
    LET var == Operand1[2]
        old == last.m.envs
    IN /\ Len(envs) = Len(old)
       /\ \A i \in 1..Len(old) :
            /\ DOMAIN envs[i].vals = DOMAIN old[i].vals
            /\ envs[i].parent = old[i].parent
       /\ IF BoundNowhere(old, last.m.env, var)
          THEN /\ status = "UnboundVariable"
               /\ envs = old
               /\ exp = last.m.exp
          ELSE /\ status = "ok"
               /\ IsInnermostBinding(envs, last.m.env, var, last.m.acc)
               /\ exp = Operand2
               /\ \A i \in 1..Len(old) :
                    \A n \in DOMAIN old[i].vals :
                      envs[i].vals[n] # old[i].vals[n] =>
                        /\ n = var
                        /\ IsInnermostBinding(old, last.m.env, var,
                                              old[i].vals[n])

C15_Witness ==
  /\ last.op = "assign"
  /\ last.m.env = 2
  /\ Operand1 = <<"sym", "y">>
  /\ envs[1].vals["y"] = Num(9)
  /\ "y" \notin DOMAIN envs[2].vals

-----------------------------------------------------------------------------
(* Parser *)

\* the parse_datum calls made so far
ParseCalls == {i \in 1..Len(phist) : phist[i].op = "parse_datum"}

\* C16: every parse_datum call terminates and returns a result of one of
\* the kinds Complete, Incomplete, ParserError, LexerError (the kind is
\* the single type string of the result), never the intermediate Valid
\* and never by leaving the call without a result.
C16_Totality ==
  \A i \in ParseCalls :
    phist[i].res.type \in
      {"complete", "incomplete", "parser-error", "lexer-error"}

\* number of opening minus number of closing parens in a token sequence
RECURSIVE Depth(_)
Depth(ts) ==
  IF ts = <<>> THEN 0
  ELSE Depth(SubSeq(ts, 1, Len(ts) - 1))
       + (CASE ts[Len(ts)] = T_lp -> 1
            [] ts[Len(ts)] = T_rp -> -1
            [] OTHER -> 0)

SimpleTypes ==
  {"identifier", "number", "string", "boolean-true", "boolean-false"}

\* the tokens are the beginning of a list of simple datums and lists that
\* is not closed yet
Unfinished(ts) ==
  /\ ts # <<>>
  /\ ts[1] = T_lp
  /\ \A j \in 1..Len(ts) :
       /\ is_token(ts[j])
       /\ ts[j].token_type \in SimpleTypes \cup {"paren-left", "paren-right"}
       /\ Depth(SubSeq(ts, 1, j)) > 0

\* C17: a parse_datum call whose tokens run out in the middle of a list
\* returns Incomplete and leaves the tokens in the ParserInput; after
\* append_input with the rest, the next call returns Complete with the
\* whole list: (+ 1 and then 2) give (+ 1 2).
C17_IncompleteRetry ==
  /\ \A i \in ParseCalls :
       Unfinished(Stream(phist[i].before)) =>
         /\ is_incomplete(phist[i].res)
         /\ Stream(phist[i].after) = Stream(phist[i].before)
  /\ \A i \in ParseCalls :
       (/\ i + 2 \in ParseCalls
        /\ Stream(phist[i].before) = <<T_lp, T_id("+"), T_num("1")>>
        /\ phist[i + 1].op = "append_input"
        /\ Stream(phist[i + 1].after)
             = Stream(phist[i + 1].before) \o <<T_num("2"), T_rp>>) =>
         phist[i + 2].res
           = Complete(list(<<Sym("+"), Num(1), Num(2)>>))

\* C18: a parse_datum call that consumes a quote token and whose
\* sub-datum does not complete reports the failure and leaves the quote
\* token at the front of the input, with the input as it was before the
\* call.
C18_QuoteRollback ==
  \A i \in ParseCalls :
    LET before == Stream(phist[i].before)
    IN (/\ before # <<>>
        /\ before[1] = T_quote
        /\ ~is_complete(phist[i].res)) =>
         /\ phist[i].res.type
              \in {"incomplete", "parser-error", "lexer-error"}
         /\ phist[i].after.tokens # <<>>
         /\ phist[i].after.tokens[1] = T_quote
         /\ Stream(phist[i].after) = before

\* C19: a parse_datum call during which the lexer delivers an error
\* result returns LexerError with that lexer result.
C19_LexerError ==
  \A i \in ParseCalls :
    phist[i].after.lex.failed =>
      /\ is_lexer_error(phist[i].res)
      /\ phist[i].res.lex_result = LexError

\* the datum a simple token stands for
NumberValue(str) == CASE str = "1" -> 1 [] str = "2" -> 2 [] str = "3" -> 3
DatumOf(t) ==
  IF t.token_type = "number" THEN Num(NumberValue(t.str)) ELSE Sym(t.str)

IsSimple(t) == is_token(t) /\ t.token_type \in {"identifier", "number"}

\* C20: in a list, a dot is followed by exactly one datum, the improper
\* tail, and the closing paren: (x y . z) gives Pair(x, Pair(y, z)), such
\* as (1 2 . 3); a second datum after the tail, or no tail, is an error
\* and never Complete.
C20_DottedList ==
  \A i \in ParseCalls :
    LET ts == Stream(phist[i].before)
        res == phist[i].res
    IN /\ (/\ Len(ts) = 6
           /\ ts[1] = T_lp /\ ts[4] = T_dot /\ ts[6] = T_rp
           /\ IsSimple(ts[2]) /\ IsSimple(ts[3]) /\ IsSimple(ts[5])) =>
            res = Complete(Cons(DatumOf(ts[2]),
                             Cons(DatumOf(ts[3]), DatumOf(ts[5]))))
       /\ (/\ Len(ts) = 6
           /\ ts[1] = T_lp /\ ts[3] = T_dot /\ ts[6] = T_rp
           /\ IsSimple(ts[2]) /\ IsSimple(ts[4]) /\ IsSimple(ts[5])) =>
            ~is_complete(res)
       /\ (/\ Len(ts) = 4
           /\ ts[1] = T_lp /\ ts[3] = T_dot /\ ts[4] = T_rp
           /\ IsSimple(ts[2])) =>
            ~is_complete(res)

\* the parse_simple and the parse_list calls made so far
SimpleCalls == {i \in 1..Len(phist) : phist[i].op = "parse_simple"}
ListCalls == {i \in 1..Len(phist) : phist[i].op = "parse_list"}

Char(c) == <<"char", c>>

AtomTypes ==
  {"identifier", "string", "boolean-true", "boolean-false", "number",
   "character"}

\* the datum an atom token stands for
AtomDatum(t) ==
  CASE t.token_type = "identifier" -> Sym(t.str)
    [] t.token_type = "string" -> Str(t.str)
    [] t.token_type = "boolean-true" -> Bool(TRUE)
    [] t.token_type = "boolean-false" -> Bool(FALSE)
    [] t.token_type = "number" -> Num(NumberValue(t.str))
    [] t.token_type = "character" -> Char(t.str)

\* C21: parse_simple on an atom token returns Complete with the datum of
\* the token (Symbol, String, Boolean, Number, Character) and consumes
\* that one token; on any other token it returns an error and consumes
\* nothing.
C21_ParseSimple ==
  \A i \in SimpleCalls :
    LET ts == Stream(phist[i].before)
    IN (ts # <<>> /\ is_token(ts[1])) =>
         IF ts[1].token_type \in AtomTypes
         THEN /\ phist[i].res = Complete(AtomDatum(ts[1]))
              /\ Stream(phist[i].after) = Tail(ts)
         ELSE /\ is_parser_error(phist[i].res)
              /\ Stream(phist[i].after) = ts

\* comments and (#; <identifier>) prefixes, then one identifier
RECURSIVE IsPrefixedDatum(_)
IsPrefixedDatum(ts) ==
  \/ Len(ts) = 1 /\ ts[1].token_type = "identifier"
  \/ /\ Len(ts) > 1
     /\ ts[1] = T_comment
     /\ IsPrefixedDatum(Tail(ts))
  \/ /\ Len(ts) > 2
     /\ ts[1] = T_datum_comment
     /\ ts[2].token_type = "identifier"
     /\ IsPrefixedDatum(Tail(Tail(ts)))

\* C22: parse_datum skips every comment and every (#; <datum>) prefix,
\* however many, and returns Complete with the datum that follows them.
C22_CommentPrefixes ==
  \A i \in ParseCalls :
    LET ts == Stream(phist[i].before)
    IN (ts # <<>> /\ IsPrefixedDatum(ts)) =>
         phist[i].res = Complete(Sym(ts[Len(ts)].str))

\* the symbol a quotation shorthand stands for
ShorthandName(t) ==
  CASE t = T_quote -> "quote"
    [] t = T_backtick -> "quasiquote"
    [] t = T_comma -> "unquote"
    [] t = T_comma_at -> "unquote-splicing"

\* C29: a quotation shorthand token followed by a datum x gives Complete
\* with the list (quote x), (quasiquote x), (unquote x) or
\* (unquote-splicing x).
C29_Shorthands ==
  \A i \in ParseCalls :
    LET ts == Stream(phist[i].before)
    IN (/\ Len(ts) = 2
        /\ ts[1] \in {T_quote, T_backtick, T_comma, T_comma_at}
        /\ ts[2].token_type = "identifier") =>
         phist[i].res
           = Complete(list(<<Sym(ShorthandName(ts[1])), Sym(ts[2].str)>>))

\* the datums that parse completely one after the other up to the closing
\* paren, and the input after that paren
RECURSIVE Elements(_)
Elements(in) ==
  LET pk == ParserInput_peek(in)
  IN IF pk.ret = T_rp
     THEN [ok |-> TRUE, datums |-> <<>>, in |-> ParserInput_get(pk.in).in]
     ELSE LET d == parse_datum(pk.in)
          IN IF ~is_complete(d.res)
             THEN [ok |-> FALSE, datums |-> <<>>, in |-> d.in]
             ELSE [Elements(d.in) EXCEPT !.datums = <<d.res.it>> \o @]

\* C30: parse_list on ( d1 ... dn ), every di parsing completely, returns
\* Complete with the proper list of the n datums in source order and has
\* consumed the tokens up to and including the matching closing paren.
C30_ProperList ==
  \A i \in ListCalls :
    LET ts == Stream(phist[i].before)
        es == Elements([phist[i].before EXCEPT
                          !.lex.input = Tail(ts), !.tokens = <<>>])
    IN (ts # <<>> /\ ts[1] = T_lp /\ es.ok) =>
         /\ phist[i].res = Complete(list(es.datums))
         /\ Stream(phist[i].after) = Stream(es.in)

C30_Witness ==
  \E i \in ListCalls :
    /\ Stream(phist[i].before)
         = <<T_lp, T_id("a"), T_lp, T_id("b"), T_rp, T_str("s"), T_rp,
             T_id("c")>>
    /\ phist[i].res
         = Complete(list(<<Sym("a"), list(<<Sym("b")>>), Str("s")>>))
    /\ Stream(phist[i].after) = <<T_id("c")>>

-----------------------------------------------------------------------------
(* Properties of the lexer objects (specification SpecLexer) *)

\* the call returned a token
IsTok(h) == h.ret.kind = "token"
TokOf(h) == IF h.obj = "Tokenizer" THEN h.ret.token ELSE h.ret

\* the source an object reads from: the characters, or the lexer
Source(h, state) == IF h.obj = "Tokenizer" THEN state.in ELSE state.lex

\* C23: pushback is LIFO and exact, for the Tokenizer and the ParserInput:
\* a get that follows unget(t) returns t and leaves the object as it was
\* before the unget; gets that follow unget(t1), unget(t2) return t2, then
\* t1, and leave the object as it was before the two ungets, so that what
\* comes next is what was queued or is lexed next.
C23_Pushback ==
  \A i \in 1..Len(thist) :
    /\ (/\ i + 1 <= Len(thist)
        /\ thist[i].op = "unget"
        /\ thist[i + 1].op = "get") =>
          /\ IsTok(thist[i + 1])
          /\ TokOf(thist[i + 1]) = thist[i].arg
          /\ thist[i + 1].after = thist[i].before
    /\ (/\ i + 3 <= Len(thist)
        /\ thist[i].op = "unget"
        /\ thist[i + 1].op = "unget"
        /\ thist[i + 2].op = "get"
        /\ thist[i + 3].op = "get") =>
          /\ IsTok(thist[i + 2])
          /\ TokOf(thist[i + 2]) = thist[i + 1].arg
          /\ IsTok(thist[i + 3])
          /\ TokOf(thist[i + 3]) = thist[i].arg
          /\ thist[i + 3].after = thist[i].before

C23_Witness ==
  /\ Len(thist) = 4
  /\ thist[1].obj = "Tokenizer"
  /\ thist[1].before.in # <<>>
  /\ thist[1].op = "unget"
  /\ thist[2].op = "unget"
  /\ thist[2].arg # thist[1].arg
  /\ thist[3].op = "get"
  /\ thist[4].op = "get"
  /\ thist[3].ret.token = thist[2].arg
  /\ thist[4].ret.token = thist[1].arg
  /\ tk = thist[1].before

\* get called on an object, as the object's class does it
GetOn(h, state) ==
  IF h.obj = "Tokenizer" THEN Tokenizer_get(state) ELSE ParserInput_get(state)

\* C24: peek does not consume, for the Tokenizer and the ParserInput: when
\* peek returns a token, a get or a peek that follows returns the same
\* token without reading the source again, a second peek changes nothing,
\* and a get after the peek returns what a get in place of the peek
\* returns and leaves the object as that get leaves it (so the tokens
\* obtained by get do not depend on the peeks in between).
C24_PeekKeeps ==
  \A i \in 1..Len(thist) :
    (thist[i].op = "peek" /\ IsTok(thist[i])) =>
      /\ GetOn(thist[i], thist[i].after) = GetOn(thist[i], thist[i].before)
      /\ (/\ i + 1 <= Len(thist)
          /\ thist[i + 1].op \in {"get", "peek"}) =>
            /\ IsTok(thist[i + 1])
            /\ TokOf(thist[i + 1]) = TokOf(thist[i])
            /\ Source(thist[i], thist[i + 1].after)
                 = Source(thist[i], thist[i].after)
            /\ thist[i + 1].op = "peek" =>
                 thist[i + 1].after = thist[i + 1].before

C24_Witness ==
  /\ Len(thist) = 4
  /\ thist[1].obj = "Tokenizer"
  /\ thist[1].before.tokens = <<>>
  /\ thist[1].op = "peek"
  /\ thist[2].op = "peek"
  /\ thist[3].op = "get"
  /\ thist[4].op = "get"
  /\ \A i \in 1..4 : IsTok(thist[i])
  /\ thist[2].ret.token = thist[1].ret.token
  /\ thist[3].ret.token = thist[1].ret.token
  /\ thist[4].ret.token # thist[1].ret.token
  /\ thist[1].after.in = thist[3].after.in
  /\ thist[1].after.in # thist[1].before.in

\* the calls that make a Tokenizer with an empty deque read a token
FreshReads ==
  {i \in 1..Len(thist) :
     /\ thist[i].obj = "Tokenizer"
     /\ thist[i].op \in {"get", "peek"}
     /\ thist[i].before.tokens = <<>>}

\* the characters after a block comment whose opening has been read, the
\* depth counted up at each #| and down at each |#; the comment may not
\* end in the characters
RECURSIVE AfterComment(_, _)
AfterComment(chars, depth) ==
  IF depth = 0 THEN [closed |-> TRUE, rest |-> chars]
  ELSE IF Len(chars) < 2 THEN [closed |-> FALSE, rest |-> <<>>]
  ELSE IF chars[1] = "#" /\ chars[2] = "|"
  THEN AfterComment(Drop(chars, 2), depth + 1)
  ELSE IF chars[1] = "|" /\ chars[2] = "#"
  THEN AfterComment(Drop(chars, 2), depth - 1)
  ELSE AfterComment(Tail(chars), depth)

\* C25: block comments nest for every arrangement of the delimiters and
\* give no token: a read on characters that begin with a block comment
\* that ends returns what a read on the characters after the comment
\* returns, and leaves the same characters unread.
C25_NestedComments ==
  \A i \in FreshReads :
    LET chars == thist[i].before.in
        c == AfterComment(Drop(chars, 2), 1)
    IN (/\ Len(chars) >= 2
        /\ chars[1] = "#"
        /\ chars[2] = "|"
        /\ c.closed
        /\ parse_token(c.rest).kind = "token") =>
          /\ thist[i].ret.kind = "token"
          /\ thist[i].ret.token = parse_token(c.rest).token
          /\ thist[i].ret.in = parse_token(c.rest).in

\* a closing double quote that is not escaped follows in the characters
RECURSIVE Closes(_)
Closes(chars) ==
  IF chars = <<>> THEN FALSE
  ELSE IF Head(chars) = "\\" THEN Closes(Drop(chars, 2))
  ELSE IF Head(chars) = "\"" THEN TRUE
  ELSE Closes(Tail(chars))

\* C26: a read on characters that open a string which the input does not
\* close stops with an error: it returns no token and it comes back.
C26_UnterminatedString ==
  \A i \in FreshReads :
    LET chars == thist[i].before.in
    IN (/\ chars # <<>>
        /\ Head(chars) = "\""
        /\ ~Closes(Tail(chars))) =>
          thist[i].ret.kind \in {"throw", "throw-other"}

\* the characters a call has read
Consumed(h) ==
  SubSeq(h.before.in, 1, Len(h.before.in) - Len(h.after.in))

\* C27: the lexeme of a number or an identifier is the text read for it, an
\* explicit sign included: on characters that begin with a sign, a digit or
\* a letter, the token returned has the characters read as its lexeme.
C27_SignedLexemes ==
  \A i \in FreshReads :
    LET chars == thist[i].before.in
    IN (/\ chars # <<>>
        /\ Head(chars) \in {"+", "-"} \cup Digits \cup Letters
        /\ thist[i].ret.kind = "token"
        /\ thist[i].ret.token.type \in {"NUMBER", "IDENTIFIER"}) =>
          thist[i].ret.token.str = Consumed(thist[i])

\* the subsequent characters of an identifier: the initial characters,
\* the digits and . @ + -
SubsequentChars ==
  Letters \cup InitialChars \cup Digits \cup {".", "@", "+", "-"}

\* C28: a read on characters that begin with an initial character returns
\* one identifier whose lexeme is that character and the longest run of
\* subsequent characters after it; no initial character is an invalid
\* token.
C28_InitialCharacters ==
  \A i \in FreshReads :
    LET chars == thist[i].before.in
    IN (chars # <<>> /\ Head(chars) \in InitialChars) =>
         /\ thist[i].ret.kind = "token"
         /\ thist[i].ret.token
              = TokenOf("IDENTIFIER",
                        <<Head(chars)>> \o Run(Tail(chars), SubsequentChars))

-----------------------------------------------------------------------------
(* Properties of the close, halt and test steps *)

Operand3 == car(cdr(cdr(cdr(LastExp))))

\* C31: a step on (close vars body x) puts in the accumulator a closure
\* that holds the environment the env register points to (the pointer, the
\* environment heap is not touched), the body operand and the names of
\* vars in list order, and sets the expression to x; env, rib and frame
\* are unchanged.
C31_Close ==
  last.op = "close" =>
    /\ status = "ok"
    /\ IsClosure(acc)
    /\ acc[2] = last.m.env
    /\ acc[3] = Operand2
    /\ list([i \in 1..Len(acc[4]) |-> Sym(acc[4][i])]) = Operand1
    /\ acc[5] = 0
    /\ exp = Operand3
    /\ env = last.m.env
    /\ rib = last.m.rib
    /\ frame = last.m.frame
    /\ envs = last.m.envs
    /\ frames = last.m.frames

C31_Witness ==
  /\ last.op = "close"
  /\ last.m.exp = ProgClose
  /\ last.m.env = 2
  /\ acc = Closure(2, I_refer("y", I_return), <<"x", "y">>, 0)
  /\ HeadIs("halt")

\* C32: halt is terminal: a step taken with halt at the head of the
\* expression leaves accumulator, expression, env, rib and frame as they
\* were, so the head is halt again for every further step and the
\* accumulator keeps the result.
C32_HaltTerminal ==
  last.op = "halt" =>
    /\ status = "ok"
    /\ HeadIs("halt")
    /\ acc = last.m.acc
    /\ exp = last.m.exp
    /\ env = last.m.env
    /\ rib = last.m.rib
    /\ frame = last.m.frame
    /\ envs = last.m.envs
    /\ frames = last.m.frames

C32_Witness ==
  /\ last.op = "halt"
  /\ prog = ProgConstants
  /\ last.m.acc = Num(2)
  /\ acc = Num(2)

\* the values the test step can find false: the boolean false datum and
\* the symbol #f the step compares the accumulator with
IsFalse(d) == d = FalseDatum \/ d = Sym("#f")

\* C33: a step on (test then else) with a value other than false in the
\* accumulator (the empty list, the number 0, the empty string and boolean
\* true among them) sets the expression to then and leaves the accumulator
\* unchanged.
C33_TestTrueTakesThen ==
  (last.op = "test" /\ last.m.acc # NullPtr /\ ~IsFalse(last.m.acc)) =>
    /\ status = "ok"
    /\ exp = Operand1
    /\ acc = last.m.acc

C33_Witness ==
  /\ last.op = "test"
  /\ last.m.acc = Null
  /\ prog = ProgIf(Null)
  /\ exp = I_constant(Num(1), I_halt)
  /\ acc = Null

-----------------------------------------------------------------------------
(* Properties of character literals and of the termination of the lexer *)

\* the characters begin with #\ and one character that a delimiter or the
\* end of the characters follows
IsCharacterLiteral(chars) ==
  /\ Len(chars) >= 3
  /\ chars[1] = "#"
  /\ chars[2] = "\\"
  /\ ~isspace(chars[3])
  /\ Len(chars) = 3 \/ is_delimiter(chars[4])

\* C34: a read on characters that begin with #\ and a single character, a
\* letter or not, returns one character token whose lexeme is that
\* character and reads the three characters only; the literal is never
\* dropped so that the token after it is returned.
C34_CharacterLiteral ==
  \A i \in FreshReads :
    LET chars == thist[i].before.in
    IN (thist[i].op = "get" /\ IsCharacterLiteral(chars)) =>
         /\ thist[i].ret.kind = "token"
         /\ thist[i].ret.token = TokenOf("CHARACTER", <<chars[3]>>)
         /\ thist[i].after.in = Drop(chars, 3)

-----------------------------------------------------------------------------
(* Properties of the step as a whole *)

HasBlock(op) == \E k \in 1..Len(BlockOrder) : BlockOrder[k] = op

\* the machine after the handler of opcode op alone, run once on machine m
HandlerAlone(op, m) == IF HasBlock(op) THEN BlockBody(op, m, m.exp) ELSE m

VMSteps == Opcodes \cup UnknownHeads

\* C36: one step executes one instruction, the handler of the opcode at
\* the head of the expression at entry: the machine after the step is the
\* machine that handler alone leaves, also when it has installed an
\* expression headed by an opcode whose if-block comes later in the step.
C36_OneInstruction ==
  last.op \in VMSteps =>
    /\ last.op = OpcodeOf(last.m)
    /\ Machine = HandlerAlone(last.op, last.m)

C36_Witness ==
  /\ last.op = "constant"
  /\ status = "ok"
  /\ HeadIs("argument")
  /\ acc = Num(1)
  /\ rib = last.m.rib
  /\ exp = car(cdr(cdr(last.m.exp)))

\* the call frames reached from frame f through the next-frame links
RECURSIVE FrameChain(_, _)
FrameChain(h, f) ==
  IF f = 0 THEN <<>> ELSE <<f>> \o FrameChain(h, get_next_frame(h[f]))

\* C37: shape of the control stack: from an empty control stack, the chain
\* reached from the frame register through the next-frame links is as long
\* as the frame steps completed minus the return steps completed; refer,
\* constant, close, test, assign, conti and argument steps leave the frame
\* register unchanged; no step changes a field of a call frame that
\* existed at its entry, on the chain or captured.
C37_ControlStackShape ==
  /\ Len(FrameChain(frames, frame)) = count.frame - count.return
  /\ last.op \in {"refer", "constant", "close", "test", "assign", "conti",
                  "argument"} => frame = last.m.frame
  /\ last.op \in VMSteps =>
       /\ Len(frames) >= Len(last.m.frames)
       /\ \A i \in 1..Len(last.m.frames) : frames[i] = last.m.frames[i]

C37_Witness ==
  /\ last.op = "return"
  /\ status = "ok"
  /\ count.frame = 2
  /\ count.return = 1
  /\ Len(FrameChain(frames, frame)) = 1
  /\ Len(FrameChain(last.m.frames, last.m.frame)) = 2

\* C38: every get and peek call of the Tokenizer comes back, with a token
\* or with an error, whatever the characters: a line comment that no
\* newline ends, a block comment that is never closed and a #! directive
\* at the end of the characters included.
C38_LexerTerminates ==
  \A i \in 1..Len(thist) :
    (thist[i].obj = "Tokenizer" /\ thist[i].op \in {"get", "peek"}) =>
      thist[i].ret.kind \in {"token", "throw", "throw-other"}

====
